---- MODULE Spec2Model ----
(***************************************************************************)
(* Model of the Shortmeet meeting backend (Justparthi/meeting-backend).    *)
(*                                                                         *)
(*  - the meeting lifecycle routes /api/room/{create,join,end,leave} and   *)
(*    GET /api/room/:roomCode over the two stores: the Firestore           *)
(*    collection 'meetings' (models/meeting.js) and the process-local Map  *)
(*    inMemoryRooms;                                                       *)
(*  - the socket.io handlers join-room, signal, send-message, disconnect   *)
(*    over the adapter's room index.                                       *)
(*                                                                         *)
(* The two server files (src/unnamed/part_001, src/unnamed/part_002) hold  *)
(* the same lifecycle routes; they differ in the join-room handler, which  *)
(* is selected by the variable serverVariant.                              *)
(***************************************************************************)
EXTENDS Integers, Sequences, FiniteSets, TLC

(***************************************************************************)
(* Bounds of the model.                                                    *)
(***************************************************************************)
\* number of /api/room/create requests that get past validation
MaxMeetings == 1
\* number of distinct values generateRoomCode() can return
MaxCodes == 1
\* Spec explores joins while fewer participants than this are stored
MaxStored == 2
\* number of socket.io connections
MaxSockets == 2
\* number of room names clients use in join-room (besides socket ids)
MaxRooms == 1

(***************************************************************************)
(* Program constants.                                                      *)
(***************************************************************************)
\* settings.maxParticipants written by /api/room/create
DefaultMaxParticipants == 100

VARIABLES
    meetings,        \* Firestore collection 'meetings': document id -> document
    inMemoryRooms,   \* const inMemoryRooms = new Map(): roomCode -> record
    nCreated,        \* number of records ever stored (identity stamp of a record)
    res,             \* the HTTP response sent by the last lifecycle request
    serverVariant,   \* the server file running: 1 = part_001, 2 = part_002
    sockets,         \* io.sockets.sockets: socket id -> [userId, userData]
    rooms,           \* io.sockets.adapter.rooms: room id -> socket ids, in
                     \* insertion order (a JavaScript Set)
    nConnected,      \* number of connections accepted so far
    emitted,         \* the events the last socket handler delivered, as
                     \* [to, event, userId, payload]
    roomUsers,       \* the 'room-users' event the last handler sent, if any
    inflight,        \* the lifecycle requests suspended at an await: handler
                     \* -> its local variables and the call it waits for
    signalLog,       \* the 'signal' events handled so far, in handling order
    streams,         \* socket id -> the 'signal' packets written to that
                     \* connection's outbound stream, in writing order
    presence,        \* socket id -> what the connection was told so far: the
                     \* <<room, connection>> pairs of the room-users snapshots
                     \* and of the user-connected events it received
    generated,       \* the call of generateRoomCode / generateMeetingId under
                     \* way: its loop counter i and its local result
    twin,            \* two callers sending the same requests, one for a
                     \* meeting stored in Firestore, one for a meeting stored
                     \* in inMemoryRooms: the request under way, the answers
                     \* both got to the last one, the userIds they were given
    requestQueue,    \* const requestQueue = []: the requests waiting, oldest
                     \* first
    timeSinceLastRequest,
                     \* Date.now() - lastRequestTime in milliseconds, held at
                     \* MIN_REQUEST_INTERVAL once it has reached it
    timers,          \* the pending setTimeout(processQueue, delay) calls:
                     \* remaining delay -> number of timers
    started,         \* the requests whose fn() was called, in calling order,
                     \* each with the time since the call before it
    promises         \* the promises queueRequest returned, in call order

relayVars == <<signalLog, streams, presence>>
\* the variables of the specifications of single functions: no route and no
\* socket handler writes them
queueVars == <<requestQueue, timeSinceLastRequest, timers, started, promises>>
auxVars == <<generated, twin, queueVars>>
storeVars == <<meetings, inMemoryRooms, nCreated, res, inflight>>
connVars == <<serverVariant, sockets, rooms, nConnected, emitted, roomUsers,
              relayVars>>
lifeVars == <<storeVars, auxVars>>
sockVars == <<connVars, auxVars>>
vars == <<meetings, inMemoryRooms, nCreated, res,
          serverVariant, sockets, rooms, nConnected, emitted, roomUsers,
          inflight, signalLog, streams, presence, generated, twin,
          requestQueue, timeSinceLastRequest, timers, started, promises>>

(***************************************************************************)
(* Values.                                                                 *)
(***************************************************************************)
RoomCodes == {"RC" \o ToString(i) : i \in 1..MaxCodes}
DocIds == 1..MaxMeetings
\* the JavaScript value undefined
Undefined == "<undefined>"
\* req.body.password: absent, empty, or a string
NoPassword == Undefined
CreatePasswords == {NoPassword, "pw1"}
JoinPasswords == {NoPassword, "pw1", "pw2"}
\* req.body.username / req.body.roomName: missing, empty (both falsy) or a
\* name
Names == {Undefined, "", "name"}

Truthy(s) == s \notin {NoPassword, ""}

\* `user-${Date.now()}-${Math.random()...}`: a value no participant of another
\* record has, written as the pair <<record identity, list length it was
\* generated at>>; NoUser is an id no participant has
NewUserId(mid, ps) == <<mid, Len(ps)>>
NoUser == <<0, 0>>

\* generateMeetingId(): a value no other record has
NewMeetingId(mid) == "M" \o ToString(mid)

Min(S) == CHOOSE x \in S : \A y \in S : x <= y

\* the settings object built by /api/room/create
Settings(password) ==
    [password |-> IF Truthy(password) THEN password ELSE "",
     maxParticipants |-> DefaultMaxParticipants,
     recordingEnabled |-> FALSE,
     waitingRoom |-> FALSE,
     muteOnJoin |-> FALSE,
     videoOnJoin |-> TRUE,
     chatEnabled |-> TRUE,
     screenShareEnabled |-> TRUE]

\* the record stored by /api/room/create (same fields on both paths; mid is
\* the identity of the stored object / document)
NewMeeting(roomCode, userId, password, mid) ==
    [roomCode |-> roomCode,
     meetingId |-> NewMeetingId(mid),
     hostUserId |-> userId,
     participants |-> <<[userId |-> userId, isHost |-> TRUE, leftAt |-> FALSE]>>,
     settings |-> Settings(password),
     isActive |-> TRUE,
     mid |-> mid]

NoRec == [roomCode |-> "", meetingId |-> "", hostUserId |-> NoUser,
          participants |-> <<>>,
          settings |-> Settings(""), isActive |-> FALSE, mid |-> 0]

\* variant of ActiveCount: the participants that left are counted too
ActiveCountAll(ps) == Len(ps)

\* meeting.participants.filter(p => !p.leftAt).length
ActiveCount(ps) == Len(SelectSeq(ps, LAMBDA p : ~p.leftAt))

\* every record of either store
StoredRecords == {meetings[d] : d \in DOMAIN meetings}
                 \cup {inMemoryRooms[c] : c \in DOMAIN inMemoryRooms}

\* Meeting.getByRoomCode: snapshot.docs[0] of the documents with that
\* roomCode (Firestore orders by document id); 0 when snapshot.empty
getByRoomCode(roomCode) ==
    LET ids == {d \in DOMAIN meetings : meetings[d].roomCode = roomCode}
    IN  IF ids = {} THEN 0 ELSE Min(ids)

\* the lookup shared by join, end and get: authoritative store first (a
\* failed call leaves meeting null), then inMemoryRooms.get
Lookup(roomCode, getOk) ==
    LET d == IF getOk THEN getByRoomCode(roomCode) ELSE 0
    IN  IF d # 0 THEN [src |-> "db", id |-> d, rec |-> meetings[d]]
        ELSE IF roomCode \in DOMAIN inMemoryRooms
             THEN [src |-> "mem", id |-> 0, rec |-> inMemoryRooms[roomCode]]
             ELSE [src |-> "none", id |-> 0, rec |-> NoRec]

\* Meeting.update(meeting.id, data) succeeds only for a document id (a
\* record taken from inMemoryRooms has no id: doc(undefined) throws) and
\* when the store call itself does not fail
UpdateSucceeds(m, updOk) == m.src = "db" /\ updOk

\* the response object (fields a route does not send are 0 / <<>> / "")
Response(op, status, roomCode, userId, settings, participantCount) ==
    [op |-> op, status |-> status, roomCode |-> roomCode, userId |-> userId,
     settings |-> settings, participantCount |-> participantCount,
     meetingId |-> "", received |-> << >>,
     isPasswordProtected |-> FALSE, maxParticipants |-> 0]

\* req.body of a create request, as echoed in 'received'
Body(roomName, username, password) ==
    [roomName |-> roomName, username |-> username, password |-> password]

\* Map.prototype.set
MapSet(map, key, value) ==
    [k \in DOMAIN map \cup {key} |-> IF k = key THEN value ELSE map[k]]
\* Map.prototype.delete
MapDelete(map, key) == [k \in DOMAIN map \ {key} |-> map[k]]

\* participants.push(newParticipant) on the record under roomCode, if any
MemPush(map, roomCode, p) ==
    IF roomCode \in DOMAIN map
    THEN [map EXCEPT ![roomCode].participants = Append(@, p)]
    ELSE map

(***************************************************************************)
(* The outer try/catch of the routes.                                      *)
(***************************************************************************)
\* variant of Uncaught: a store call that rejects reaches the outer catch
UncaughtIfRejected(oks) == \E i \in 1..Len(oks) : ~oks[i]

\* an exception reaches the outer catch of a route, which answers 500: every
\* store call (with outcomes oks) is awaited inside an inner try whose catch
\* block falls back to inMemoryRooms, so none of their rejections does
Uncaught(oks) == FALSE

\* the answer of the outer catch
ServerError(op) ==
    /\ res' = Response(op, 500, "", NoUser, <<>>, 0)
    /\ UNCHANGED <<meetings, inMemoryRooms, nCreated>>

(***************************************************************************)
(* POST /api/room/create                                                   *)
(***************************************************************************)
\* variant of StoredInMemory: inMemoryRooms.set runs whatever the store did
StoredInMemoryAlways(createOk) == TRUE

\* inMemoryRooms.set(roomCode, ...) is the catch block of the try around
\* `await Meeting.create(...)`
StoredInMemory(createOk) == ~createOk

\* variant of CreateInvalid: only roomName is required
CreateInvalidRoomOnly(roomName, username) == ~Truthy(roomName)

\* if (!req.body.roomName) ... if (!username) ...
CreateInvalid(roomName, username) == ~Truthy(roomName) \/ ~Truthy(username)

CreateRoom(roomName, username, password, roomCode, userId, docId, createOk) ==
    IF CreateInvalid(roomName, username)
    THEN /\ res' = [Response("create", 400, "", NoUser, <<>>, 0)
                      EXCEPT !.received = <<Body(roomName, username, password)>>]
         /\ UNCHANGED <<meetings, inMemoryRooms, nCreated>>
    ELSE IF Uncaught(<<createOk>>) THEN ServerError("create")
    ELSE LET rec == NewMeeting(roomCode, userId, password, nCreated + 1)
         IN  /\ docId \notin DOMAIN meetings
             /\ meetings' = IF createOk THEN MapSet(meetings, docId, rec)
                            ELSE meetings
             /\ inMemoryRooms' = IF StoredInMemory(createOk)
                                 THEN MapSet(inMemoryRooms, roomCode, rec)
                                 ELSE inMemoryRooms
             /\ nCreated' = nCreated + 1
             /\ res' = [Response("create", 201, roomCode, userId,
                                 <<Settings(password)>>, 0)
                          EXCEPT !.meetingId = rec.meetingId,
                                 !.received = <<Body(roomName, username, password)>>]

(***************************************************************************)
(* POST /api/room/join                                                     *)
(***************************************************************************)
\* variant of PasswordRejected: the check is skipped when no password is sent
PasswordRejectedIfSent(meeting, password) ==
    /\ meeting.settings.password # ""
    /\ password # NoPassword
    /\ meeting.settings.password # password

\* variant of PasswordRejected: the capacity check comes first, so a full
\* room is not answered 401
PasswordRejectedUnlessFull(meeting, password) ==
    /\ meeting.settings.password # ""
    /\ meeting.settings.password # password
    /\ ActiveCount(meeting.participants) < meeting.settings.maxParticipants

\* meeting.settings.password && meeting.settings.password !== password
PasswordRejected(meeting, password) ==
    meeting.settings.password # "" /\ meeting.settings.password # password

\* variant of RoomIsFull: > in place of >=
RoomIsFullStrict(meeting) ==
    ActiveCount(meeting.participants) > meeting.settings.maxParticipants

\* activeParticipants >= meeting.settings.maxParticipants
RoomIsFull(meeting) ==
    ActiveCount(meeting.participants) >= meeting.settings.maxParticipants

\* variant of NewParticipant: the joiner is flagged as host
NewParticipantAsHost(userId) == [userId |-> userId, isHost |-> TRUE, leftAt |-> FALSE]

\* the participant object a join appends
NewParticipant(userId) == [userId |-> userId, isHost |-> FALSE, leftAt |-> FALSE]

\* variant of NotFound: a record that is not active is taken as found
NotFoundIfAbsent(m) == m.src = "none"

\* if (!meeting || !meeting.isActive)
NotFound(m) == m.src = "none" \/ ~m.rec.isActive

JoinRoom(roomCode, username, password, userId, getOk, updOk) ==
    LET m == Lookup(roomCode, getOk)
        meeting == m.rec
        newParticipant == NewParticipant(userId)
        \* meeting.participants.push(newParticipant): on a record taken from
        \* inMemoryRooms this already changes the stored object
        mem1 == IF m.src = "mem"
                THEN MemPush(inMemoryRooms, roomCode, newParticipant)
                ELSE inMemoryRooms
    IN
    IF ~Truthy(roomCode) \/ ~Truthy(username)
    THEN /\ res' = Response("join", 400, "", NoUser, <<>>, 0)
         /\ UNCHANGED <<meetings, inMemoryRooms, nCreated>>
    ELSE IF Uncaught(<<getOk, updOk>>) THEN ServerError("join")
    ELSE IF NotFound(m)
    THEN /\ res' = Response("join", 404, "", NoUser, <<>>, 0)
         /\ UNCHANGED <<meetings, inMemoryRooms, nCreated>>
    ELSE IF PasswordRejected(meeting, password)
    THEN /\ res' = Response("join", 401, "", NoUser, <<>>, 0)
         /\ UNCHANGED <<meetings, inMemoryRooms, nCreated>>
    ELSE IF RoomIsFull(meeting)
    THEN /\ res' = Response("join", 403, "", NoUser, <<>>, 0)
         /\ UNCHANGED <<meetings, inMemoryRooms, nCreated>>
    ELSE /\ IF UpdateSucceeds(m, updOk)
            THEN /\ meetings' = [meetings EXCEPT ![m.id].participants =
                                    Append(meeting.participants, newParticipant)]
                 /\ inMemoryRooms' = mem1
            ELSE \* catch: inMemoryRooms.get(roomCode).participants.push
                 /\ inMemoryRooms' = MemPush(mem1, roomCode, newParticipant)
                 /\ UNCHANGED meetings
         /\ res' = [Response("join", 200, meeting.roomCode, userId,
                             <<meeting.settings>>, 0)
                      EXCEPT !.meetingId = meeting.meetingId]
         /\ UNCHANGED nCreated

(***************************************************************************)
(* POST /api/room/end                                                      *)
(***************************************************************************)
\* variant of NotTheHost: any participant of the meeting passes
NotAParticipant(meeting, userId) ==
    \A i \in 1..Len(meeting.participants) : meeting.participants[i].userId # userId

\* meeting.hostUserId !== userId
NotTheHost(meeting, userId) == meeting.hostUserId # userId

\* variant of Ended: isActive is flipped
EndedFlipped(doc) == [doc EXCEPT !.isActive = ~@]

\* the document after Meeting.update(id, {isActive: false, endTime})
Ended(doc) == [doc EXCEPT !.isActive = FALSE]

EndRoom(roomId, userId, getOk, updOk) ==
    LET m == Lookup(roomId, getOk)
        meeting == m.rec
    IN
    IF Uncaught(<<getOk, updOk>>) THEN ServerError("end")
    ELSE IF m.src = "none"
    THEN /\ res' = Response("end", 404, "", NoUser, <<>>, 0)
         /\ UNCHANGED <<meetings, inMemoryRooms, nCreated>>
    ELSE IF NotTheHost(meeting, userId)
    THEN /\ res' = Response("end", 403, "", NoUser, <<>>, 0)
         /\ UNCHANGED <<meetings, inMemoryRooms, nCreated>>
    ELSE /\ IF UpdateSucceeds(m, updOk)
            THEN /\ meetings' = [meetings EXCEPT ![m.id] = Ended(@)]
                 /\ UNCHANGED inMemoryRooms
            ELSE /\ inMemoryRooms' = MapDelete(inMemoryRooms, roomId)
                 /\ UNCHANGED meetings
         /\ res' = Response("end", 200, "", NoUser, <<>>, 0)
         /\ UNCHANGED nCreated

(***************************************************************************)
(* POST /api/room/leave                                                    *)
(***************************************************************************)
\* variant of FindParticipant: without a match the first participant is taken
FindParticipantOrFirst(ps, userId) ==
    LET is == {i \in 1..Len(ps) : ps[i].userId = userId}
    IN  IF is = {} THEN (IF ps = << >> THEN 0 ELSE 1) ELSE Min(is)

\* participants.find(p => p.userId === userId): index of the first match, 0
FindParticipant(ps, userId) ==
    LET is == {i \in 1..Len(ps) : ps[i].userId = userId}
    IN  IF is = {} THEN 0 ELSE Min(is)

\* participant.leftAt = new Date() on the participant found, if any
MarkLeft(ps, userId) ==
    LET i == FindParticipant(ps, userId)
    IN  IF i = 0 THEN ps ELSE [ps EXCEPT ![i].leftAt = TRUE]

\* the catch block of /api/room/leave, run on the stores it is given
LeaveInMemory(map, roomId, userId) ==
    IF roomId \notin DOMAIN map THEN map
    ELSE LET ps == MarkLeft(map[roomId].participants, userId)
         IN  IF ActiveCount(ps) = 0
             THEN MapDelete(map, roomId)
             ELSE [map EXCEPT ![roomId].participants = ps]

LeaveRoom(roomId, userId, getOk, upd1Ok, upd2Ok) ==
    LET d == IF getOk THEN getByRoomCode(roomId) ELSE 0
        found == d # 0 /\ FindParticipant(meetings[d].participants, userId) # 0
        ps == IF d = 0 THEN <<>> ELSE MarkLeft(meetings[d].participants, userId)
        \* the documents after the first Meeting.update, when it is reached
        \* and succeeds
        afterUpd1 == IF found /\ upd1Ok
                     THEN [meetings EXCEPT ![d].participants = ps]
                     ELSE meetings
        threw == \/ ~getOk
                 \/ (found /\ ~upd1Ok)
                 \/ (d # 0 /\ ActiveCount(ps) = 0 /\ ~upd2Ok)
    IN  IF Uncaught(<<getOk, upd1Ok, upd2Ok>>) THEN ServerError("leave")
        ELSE
        /\ meetings' = IF d # 0 /\ ~(found /\ ~upd1Ok)
                          /\ ActiveCount(ps) = 0 /\ upd2Ok
                       THEN [afterUpd1 EXCEPT ![d].isActive = FALSE]
                       ELSE afterUpd1
        /\ inMemoryRooms' = IF threw
                            THEN LeaveInMemory(inMemoryRooms, roomId, userId)
                            ELSE inMemoryRooms
        /\ res' = Response("leave", 200, "", NoUser, <<>>, 0)
        /\ UNCHANGED nCreated

(***************************************************************************)
(* GET /api/room/:roomCode                                                 *)
(***************************************************************************)
\* variant of GetSettings: the stored settings object is sent as it is
GetSettingsWhole(settings) == settings

\* the settings object GET builds: the six feature flags
GetSettings(settings) ==
    [recordingEnabled |-> settings.recordingEnabled,
     waitingRoom |-> settings.waitingRoom,
     muteOnJoin |-> settings.muteOnJoin,
     videoOnJoin |-> settings.videoOnJoin,
     chatEnabled |-> settings.chatEnabled,
     screenShareEnabled |-> settings.screenShareEnabled]

\* the body GET answers for an active record
GetSummary(meeting) ==
    [Response("get", 200, meeting.roomCode, NoUser,
              <<GetSettings(meeting.settings)>>,
              ActiveCount(meeting.participants))
       EXCEPT !.meetingId = meeting.meetingId,
              !.maxParticipants = meeting.settings.maxParticipants,
              !.isPasswordProtected = meeting.settings.password # ""]

GetRoom(roomCode, getOk) ==
    LET m == Lookup(roomCode, getOk)
        meeting == m.rec
    IN  IF Uncaught(<<getOk>>) THEN ServerError("get")
        ELSE
        /\ res' = IF m.src = "none" \/ ~meeting.isActive
                  THEN Response("get", 404, "", NoUser, <<>>, 0)
                  ELSE GetSummary(meeting)
        /\ UNCHANGED <<meetings, inMemoryRooms, nCreated>>

(***************************************************************************)
(* Specification of the lifecycle routes, requests served one at a time.   *)
(***************************************************************************)
NoResponse == Response("none", 0, "", NoUser, <<>>, 0)

\* the request handlers that can be suspended at an await at the same time
Handlers == {1, 2}
\* a handler that serves no request
NoRequest == [op |-> "none", pc |-> "idle", roomCode |-> "", userId |-> NoUser,
              src |-> "none", id |-> 0, rec |-> NoRec, status |-> 0,
              activeParticipants |-> 0]

\* what a caller sees of a response
Seen(r) == [status |-> r.status, participantCount |-> r.participantCount]
\* no request sent by the two callers yet
NoTwin == [phase |-> "idle", op |-> "none", password |-> "", who |-> 0,
           first |-> [status |-> 0, participantCount |-> 0],
           second |-> [status |-> 0, participantCount |-> 0],
           firstUser |-> <<0, 0>>, users |-> << >>]

\* no call of a generator under way
NoCall == [fn |-> "", i |-> 0, result |-> << >>, returned |-> FALSE]

\* const MIN_REQUEST_INTERVAL = 4000
MIN_REQUEST_INTERVAL == 4000
\* the step of the clock, in milliseconds
TickMs == 1000
\* the delays a timer can have left
Delays == {k * TickMs : k \in 0..(MIN_REQUEST_INTERVAL \div TickMs)}
NoTimers == [d \in Delays |-> 0]

InitLife ==
    /\ meetings = << >>
    /\ inMemoryRooms = << >>
    /\ nCreated = 0
    /\ res = NoResponse
    /\ inflight = [h \in Handlers |-> NoRequest]
    /\ generated = NoCall
    /\ twin = NoTwin
    /\ requestQueue = << >>
    \* let lastRequestTime = 0, long before the server was started
    /\ timeSinceLastRequest = MIN_REQUEST_INTERVAL
    /\ timers = NoTimers
    /\ started = << >>
    /\ promises = << >>

NoRoomUsers == [to |-> "", others |-> << >>]

InitSock ==
    /\ sockets = << >>
    /\ rooms = << >>
    /\ nConnected = 0
    /\ emitted = {}
    /\ roomUsers = NoRoomUsers
    /\ signalLog = << >>
    /\ streams = << >>
    /\ presence = << >>

\* the lifecycle routes are the same text in both server files
Init == InitLife /\ InitSock /\ serverVariant = 1

\* number of participants held by the records of S
RECURSIVE SumLen(_)
SumLen(S) ==
    IF S = {} THEN 0
    ELSE LET r == CHOOSE x \in S : TRUE
         IN  Len(r.participants) + SumLen(S \ {r})

\* user ids a client sends with roomId: those of the participants stored
\* under that room code, and one that no participant has
UserIdsFor(roomId) ==
    {NoUser} \cup UNION {{r.participants[i].userId : i \in 1..Len(r.participants)}
                         : r \in {x \in StoredRecords : x.roomCode = roomId}}

\* outcomes of the store calls of one request, <<lookup, update>>: a record
\* found after a failed lookup comes from inMemoryRooms, whose update fails
\* whatever the store does
Outcomes2 == {<<TRUE, TRUE>>, <<FALSE, TRUE>>, <<TRUE, FALSE>>}
\* <<lookup, first update, second update>> of leave: no call is made after
\* the first one that fails
Outcomes3 == {<<TRUE, TRUE, TRUE>>, <<FALSE, TRUE, TRUE>>,
              <<TRUE, FALSE, TRUE>>, <<TRUE, TRUE, FALSE>>}

Create ==
    /\ nCreated < MaxMeetings
    /\ \/ \E password \in CreatePasswords, roomCode \in RoomCodes,
             docId \in DocIds, createOk \in BOOLEAN :
             CreateRoom("name", "name", password, roomCode,
                        NewUserId(nCreated + 1, <<>>), docId, createOk)
       \/ \E roomName \in Names, username \in Names :
             /\ ~Truthy(roomName) \/ ~Truthy(username)
             /\ CreateRoom(roomName, username, NoPassword, "", NoUser, 0, TRUE)
    /\ UNCHANGED <<sockVars, inflight>>

Join ==
    /\ \/ \E roomCode \in RoomCodes, password \in JoinPasswords, o \in Outcomes2 :
             /\ SumLen(StoredRecords) < MaxStored
             /\ LET meeting == Lookup(roomCode, o[1]).rec
                IN  JoinRoom(roomCode, "name", password,
                             NewUserId(meeting.mid, meeting.participants),
                             o[1], o[2])
       \/ \E roomCode \in RoomCodes \cup {"", Undefined}, username \in Names :
             /\ ~Truthy(roomCode) \/ ~Truthy(username)
             /\ JoinRoom(roomCode, username, NoPassword, NoUser, TRUE, TRUE)
    /\ UNCHANGED <<sockVars, inflight>>

End ==
    /\ \E roomId \in RoomCodes, o \in Outcomes2 :
          \E userId \in UserIdsFor(roomId) :
             EndRoom(roomId, userId, o[1], o[2])
    /\ UNCHANGED <<sockVars, inflight>>

Leave ==
    /\ \E roomId \in RoomCodes, o \in Outcomes3 :
          \E userId \in UserIdsFor(roomId) :
             LeaveRoom(roomId, userId, o[1], o[2], o[3])
    /\ UNCHANGED <<sockVars, inflight>>

Get ==
    /\ \E roomCode \in RoomCodes, getOk \in BOOLEAN : GetRoom(roomCode, getOk)
    /\ UNCHANGED <<sockVars, inflight>>

Next == Create \/ Join \/ End \/ Leave \/ Get

Spec == Init /\ [][Next]_vars

(***************************************************************************)
(* Specification of one meeting filled up to settings.maxParticipants: a   *)
(* single create, joins without a bound on the list, and leave requests of *)
(* the host, of the first joiner and of a stranger.                        *)
(***************************************************************************)
CreateOne ==
    /\ nCreated = 0
    /\ \E password \in CreatePasswords, roomCode \in RoomCodes,
          createOk \in BOOLEAN :
          CreateRoom("name", "name", password, roomCode,
                     NewUserId(1, <<>>), Min(DocIds), createOk)
    /\ UNCHANGED <<sockVars, inflight>>

JoinAny ==
    /\ \E roomCode \in RoomCodes, password \in JoinPasswords, o \in Outcomes2 :
          LET meeting == Lookup(roomCode, o[1]).rec
          IN  JoinRoom(roomCode, "name", password,
                       NewUserId(meeting.mid, meeting.participants), o[1], o[2])
    /\ UNCHANGED <<sockVars, inflight>>

\* the user ids sent with leave and end: the host's, the first joiner's and
\* one that no participant has
FewUserIds == {NoUser, NewUserId(1, <<>>), NewUserId(1, <<0>>)}

LeaveFew ==
    /\ \E roomId \in RoomCodes, o \in Outcomes3, userId \in FewUserIds :
          LeaveRoom(roomId, userId, o[1], o[2], o[3])
    /\ UNCHANGED <<sockVars, inflight>>

EndFew ==
    /\ \E roomId \in RoomCodes, o \in Outcomes2, userId \in FewUserIds :
          EndRoom(roomId, userId, o[1], o[2])
    /\ UNCHANGED <<sockVars, inflight>>

NextFull == CreateOne \/ JoinAny \/ LeaveFew \/ EndFew \/ Get

SpecFull == Init /\ [][NextFull]_vars

(***************************************************************************)
(* The lifecycle routes with requests in flight at the same time.  A       *)
(* handler runs without interruption from one await to the next; each      *)
(* action below is the completion of one store call followed by the code   *)
(* up to the next await or to the response.  A lookup that resolves null   *)
(* and a lookup that fails continue the same way in join and end, and a    *)
(* null lookup ends leave without reading anything else.                   *)
(***************************************************************************)
\* the handler suspended at the store call pc, with its local variables
Suspended(op, pc, roomCode, userId, m, rec, active) ==
    [op |-> op, pc |-> pc, roomCode |-> roomCode, userId |-> userId,
     src |-> m.src, id |-> m.id, rec |-> rec, status |-> 0,
     activeParticipants |-> active]

\* the handler after res.json(...) / res.status(...).json(...)
Answered(r, status) ==
    [NoRequest EXCEPT !.op = r.op, !.pc = "done", !.roomCode = r.roomCode,
                      !.userId = r.userId, !.src = r.src, !.id = r.id,
                      !.status = status,
                      !.activeParticipants = r.activeParticipants]

Free(h) == inflight[h].pc \in {"idle", "done"}

\* /api/room/join up to `await Meeting.update(...)`
JoinLookup(h, roomCode, password, userId, getOk) ==
    LET m == Lookup(roomCode, getOk)
        meeting == m.rec
        newParticipant == NewParticipant(userId)
        active == ActiveCount(meeting.participants)
        pushed == [meeting EXCEPT !.participants = Append(@, newParticipant)]
        req == Suspended("join", "update", roomCode, userId, m, pushed, active)
        status == IF NotFound(m) THEN 404
                  ELSE IF PasswordRejected(meeting, password) THEN 401
                  ELSE IF RoomIsFull(meeting) THEN 403
                  ELSE 0
    IN  /\ Free(h)
        /\ IF status # 0
           THEN /\ res' = Response("join", status, "", NoUser, <<>>, 0)
                /\ inflight' = [inflight EXCEPT ![h] = Answered(req, status)]
                /\ UNCHANGED <<meetings, inMemoryRooms, nCreated>>
           ELSE /\ inMemoryRooms' = IF m.src = "mem"
                                    THEN MemPush(inMemoryRooms, roomCode, newParticipant)
                                    ELSE inMemoryRooms
                /\ inflight' = [inflight EXCEPT ![h] = req]
                /\ UNCHANGED <<meetings, nCreated, res>>

\* variant of JoinUpdate: the write is refused with 403 when the stored
\* document is full by the time it lands
JoinUpdateChecked(h, updOk) ==
    LET r == inflight[h]
        full == r.src = "db" /\ RoomIsFull(meetings[r.id])
    IN  /\ r.op = "join" /\ r.pc = "update"
        /\ meetings' = IF UpdateSucceeds(r, updOk) /\ ~full
                       THEN [meetings EXCEPT ![r.id].participants =
                               Append(@, NewParticipant(r.userId))]
                       ELSE meetings
        /\ res' = Response("join", IF full THEN 403 ELSE 200, r.rec.roomCode,
                           r.userId, <<r.rec.settings>>, 0)
        /\ inflight' = [inflight EXCEPT ![h] =
                          Answered(r, IF full THEN 403 ELSE 200)]
        /\ UNCHANGED <<inMemoryRooms, nCreated>>

\* variant of JoinUpdate: a failed Meeting.update is not caught, so the
\* handler stops at the rejection and sends nothing
JoinUpdateUncaught(h, updOk) ==
    LET r == inflight[h]
    IN  /\ r.op = "join" /\ r.pc = "update"
        /\ IF UpdateSucceeds(r, updOk)
           THEN /\ meetings' = [meetings EXCEPT ![r.id].participants =
                                   r.rec.participants]
                /\ res' = [Response("join", 200, r.rec.roomCode, r.userId,
                                    <<r.rec.settings>>, 0)
                           EXCEPT !.meetingId = r.rec.meetingId]
                /\ inflight' = [inflight EXCEPT ![h] = Answered(r, 200)]
           ELSE /\ inflight' = [inflight EXCEPT ![h].pc = "rejected"]
                /\ UNCHANGED <<meetings, res>>
        /\ UNCHANGED <<inMemoryRooms, nCreated>>

\* /api/room/join from the completion of Meeting.update to the response
JoinUpdate(h, updOk) ==
    LET r == inflight[h]
    IN  /\ r.op = "join" /\ r.pc = "update"
        /\ IF UpdateSucceeds(r, updOk)
           THEN /\ meetings' = [meetings EXCEPT ![r.id].participants =
                                   r.rec.participants]
                /\ UNCHANGED inMemoryRooms
           ELSE /\ inMemoryRooms' = MemPush(inMemoryRooms, r.roomCode,
                                            NewParticipant(r.userId))
                /\ UNCHANGED meetings
        /\ res' = [Response("join", 200, r.rec.roomCode, r.userId,
                            <<r.rec.settings>>, 0)
                   EXCEPT !.meetingId = r.rec.meetingId]
        /\ inflight' = [inflight EXCEPT ![h] = Answered(r, 200)]
        /\ UNCHANGED nCreated

\* /api/room/end up to `await Meeting.update(...)`
EndLookup(h, roomId, userId, getOk) ==
    LET m == Lookup(roomId, getOk)
        meeting == m.rec
        req == Suspended("end", "update", roomId, userId, m, meeting, 0)
        status == IF m.src = "none" THEN 404
                  ELSE IF NotTheHost(meeting, userId) THEN 403
                  ELSE 0
    IN  /\ Free(h)
        /\ IF status # 0
           THEN /\ res' = Response("end", status, "", NoUser, <<>>, 0)
                /\ inflight' = [inflight EXCEPT ![h] = Answered(req, status)]
           ELSE /\ inflight' = [inflight EXCEPT ![h] = req]
                /\ UNCHANGED res
        /\ UNCHANGED <<meetings, inMemoryRooms, nCreated>>

\* /api/room/end from the completion of Meeting.update to the response
EndUpdate(h, updOk) ==
    LET r == inflight[h]
    IN  /\ r.op = "end" /\ r.pc = "update"
        /\ IF UpdateSucceeds(r, updOk)
           THEN /\ meetings' = [meetings EXCEPT ![r.id] = Ended(@)]
                /\ UNCHANGED inMemoryRooms
           ELSE /\ inMemoryRooms' = MapDelete(inMemoryRooms, r.roomCode)
                /\ UNCHANGED meetings
        /\ res' = Response("end", 200, "", NoUser, <<>>, 0)
        /\ inflight' = [inflight EXCEPT ![h] = Answered(r, 200)]
        /\ UNCHANGED nCreated

\* /api/room/leave up to its first `await Meeting.update(...)`, or to the
\* response when none is reached
LeaveLookup(h, roomId, userId, getOk) ==
    LET d == IF getOk THEN getByRoomCode(roomId) ELSE 0
        meeting == IF d = 0 THEN NoRec ELSE meetings[d]
        found == FindParticipant(meeting.participants, userId) # 0
        marked == [meeting EXCEPT !.participants = MarkLeft(@, userId)]
        m == [src |-> "db", id |-> d]
        active == ActiveCount(marked.participants)
        req(pc) == Suspended("leave", pc, roomId, userId, m, marked, active)
    IN  /\ Free(h)
        /\ IF d # 0 /\ (found \/ active = 0)
           THEN /\ inflight' = [inflight EXCEPT ![h] =
                                   req(IF found THEN "update1" ELSE "update2")]
                /\ UNCHANGED <<inMemoryRooms, res>>
           ELSE /\ inMemoryRooms' = IF getOk THEN inMemoryRooms
                                    ELSE LeaveInMemory(inMemoryRooms, roomId, userId)
                /\ res' = Response("leave", 200, "", NoUser, <<>>, 0)
                /\ inflight' = [inflight EXCEPT ![h] = Answered(req("done"), 200)]
        /\ UNCHANGED <<meetings, nCreated>>

\* /api/room/leave from the completion of Meeting.update({participants}) to
\* the second update or to the response
LeaveUpdate1(h, updOk) ==
    LET r == inflight[h]
    IN  /\ r.op = "leave" /\ r.pc = "update1"
        /\ IF updOk
           THEN /\ meetings' = [meetings EXCEPT ![r.id].participants =
                                   r.rec.participants]
                /\ UNCHANGED inMemoryRooms
                /\ IF r.activeParticipants = 0
                   THEN /\ inflight' = [inflight EXCEPT ![h].pc = "update2"]
                        /\ UNCHANGED res
                   ELSE /\ inflight' = [inflight EXCEPT ![h] = Answered(r, 200)]
                        /\ res' = Response("leave", 200, "", NoUser, <<>>, 0)
           ELSE /\ inMemoryRooms' = LeaveInMemory(inMemoryRooms, r.roomCode, r.userId)
                /\ inflight' = [inflight EXCEPT ![h] = Answered(r, 200)]
                /\ res' = Response("leave", 200, "", NoUser, <<>>, 0)
                /\ UNCHANGED meetings
        /\ UNCHANGED nCreated

\* /api/room/leave from the completion of Meeting.update({isActive: false})
\* to the response
LeaveUpdate2(h, updOk) ==
    LET r == inflight[h]
    IN  /\ r.op = "leave" /\ r.pc = "update2"
        /\ IF updOk
           THEN /\ meetings' = [meetings EXCEPT ![r.id].isActive = FALSE]
                /\ UNCHANGED inMemoryRooms
           ELSE /\ inMemoryRooms' = LeaveInMemory(inMemoryRooms, r.roomCode, r.userId)
                /\ UNCHANGED meetings
        /\ inflight' = [inflight EXCEPT ![h] = Answered(r, 200)]
        /\ res' = Response("leave", 200, "", NoUser, <<>>, 0)
        /\ UNCHANGED nCreated

\* the userId generated by the join that handler h serves: no other join
\* generates it
ConcUserId(h, meeting) == <<meeting.mid, Len(meeting.participants), h>>

ConcJoinLookup ==
    /\ \E h \in Handlers, roomCode \in RoomCodes, password \in JoinPasswords,
          getOk \in BOOLEAN :
          /\ SumLen(StoredRecords) < MaxStored
          /\ JoinLookup(h, roomCode, password,
                        ConcUserId(h, Lookup(roomCode, getOk).rec), getOk)
    /\ UNCHANGED sockVars

ConcJoinUpdate ==
    /\ \E h \in Handlers, updOk \in BOOLEAN : JoinUpdate(h, updOk)
    /\ UNCHANGED sockVars

ConcEndLookup ==
    /\ \E h \in Handlers, roomId \in RoomCodes, getOk \in BOOLEAN :
          \E userId \in UserIdsFor(roomId) : EndLookup(h, roomId, userId, getOk)
    /\ UNCHANGED sockVars

ConcEndUpdate ==
    /\ \E h \in Handlers, updOk \in BOOLEAN : EndUpdate(h, updOk)
    /\ UNCHANGED sockVars

ConcLeaveLookup ==
    /\ \E h \in Handlers, roomId \in RoomCodes, getOk \in BOOLEAN :
          \E userId \in UserIdsFor(roomId) : LeaveLookup(h, roomId, userId, getOk)
    /\ UNCHANGED sockVars

ConcLeaveUpdate1 ==
    /\ \E h \in Handlers, updOk \in BOOLEAN : LeaveUpdate1(h, updOk)
    /\ UNCHANGED sockVars

ConcLeaveUpdate2 ==
    /\ \E h \in Handlers, updOk \in BOOLEAN : LeaveUpdate2(h, updOk)
    /\ UNCHANGED sockVars

\* create and get are taken whole: create writes one record in one call and
\* get only reads
NextConc ==
    \/ Create \/ Get
    \/ ConcJoinLookup \/ ConcJoinUpdate
    \/ ConcEndLookup \/ ConcEndUpdate
    \/ ConcLeaveLookup \/ ConcLeaveUpdate1 \/ ConcLeaveUpdate2

SpecConc == Init /\ [][NextConc]_vars

(***************************************************************************)
(* Specification of the race of two joins for the last free place: one     *)
(* meeting, joins served one at a time until a first join is suspended at  *)
(* a store call, then one join per handler.                                *)
(***************************************************************************)
RaceJoinWhole ==
    /\ \A h \in Handlers : inflight[h].pc = "idle"
    /\ JoinAny

RaceJoinLookup ==
    /\ \E h \in Handlers, roomCode \in RoomCodes, password \in JoinPasswords,
          getOk \in BOOLEAN :
          /\ inflight[h].pc = "idle"
          /\ JoinLookup(h, roomCode, password,
                        ConcUserId(h, Lookup(roomCode, getOk).rec), getOk)
    /\ UNCHANGED sockVars

NextRace == CreateOne \/ RaceJoinWhole \/ RaceJoinLookup \/ ConcJoinUpdate

SpecRace == Init /\ [][NextRace]_vars

(***************************************************************************)
(* The socket.io handlers (io.on('connection', ...)).                      *)
(***************************************************************************)
\* socket.id of the n-th connection accepted (ids are never handed out twice)
SocketId(n) == "s" \o ToString(n)
\* room ids, user ids and payloads clients send
RoomNames == {"room" \o ToString(i) : i \in 1..MaxRooms}
UserIds == {"u1", "u2"}
TargetUserIds == UserIds \cup {"u3"}
Signals == {"sdp1", "sdp2"}
Messages == {"hello"}
UserDatas == {"data"}

\* Array.from(io.sockets.adapter.rooms.get(roomId) || [])
Clients(roomId) == IF roomId \in DOMAIN rooms THEN rooms[roomId] ELSE << >>

Range(seq) == {seq[i] : i \in 1..Len(seq)}

\* Set.prototype.add on the room's member set (adapter.addAll)
RoomAdd(rs, roomId, id) ==
    IF roomId \notin DOMAIN rs THEN MapSet(rs, roomId, <<id>>)
    ELSE IF id \in Range(rs[roomId]) THEN rs
    ELSE [rs EXCEPT ![roomId] = Append(@, id)]

\* seq without id, order kept
Without(seq, id) == SelectSeq(seq, LAMBDA x : x # id)

\* variant of RoomsDelAll: the socket stays in the rooms it had joined
RoomsKeep(rs, id) == rs

\* adapter.delAll(id): the socket leaves every room, empty rooms are dropped
RoomsDelAll(rs, id) ==
    LET kept == {r \in DOMAIN rs : Without(rs[r], id) # << >>}
    IN  [r \in kept |-> Without(rs[r], id)]

\* variant of ToRoomExceptSender: the sender is not left out
ToRoomWithSender(id, roomId) == Range(Clients(roomId))

\* socket.to(roomId).emit(...): the members of roomId except those of the
\* room named by the sender's own id
ToRoomExceptSender(id, roomId) == Range(Clients(roomId)) \ Range(Clients(id))

\* variant of ToRoom: every connection
ToEveryone(room) == DOMAIN sockets

\* io.to(room).emit(...): every member of that room
ToRoom(room) == Range(Clients(room))

Emit(to, event, userId, payload) ==
    [to |-> to, event |-> event, userId |-> userId, payload |-> payload]

\* a new connection: socket.io creates the socket, with no userId, and puts
\* it in the room named by its own id
OnConnection ==
    /\ nConnected < MaxSockets
    /\ LET id == SocketId(nConnected + 1)
       IN  /\ sockets' = MapSet(sockets, id,
                                [userId |-> Undefined, userData |-> Undefined])
           /\ rooms' = RoomAdd(rooms, id, id)
    /\ nConnected' = nConnected + 1
    /\ emitted' = {}
    /\ roomUsers' = NoRoomUsers
    /\ UNCHANGED <<serverVariant, lifeVars>>

\* variant of Others: the first entry of the list is lost
OthersButFirst(variant, socks, clients, id) ==
    LET all == [i \in 1..Len(Without(clients, id)) |->
                  LET c == Without(clients, id)[i]
                  IN  [id |-> c, userId |-> socks[c].userId,
                       userData |-> socks[c].userData]]
    IN  IF all = << >> THEN all ELSE Tail(all)

\* variant of Others: the joining socket is not filtered out
OthersAndSelf(variant, socks, clients, id) ==
    LET all == [i \in 1..Len(clients) |->
                  [id |-> clients[i], userId |-> socks[clients[i]].userId,
                   userData |-> socks[clients[i]].userData]]
    IN  IF variant = 2
        THEN SelectSeq(all, LAMBDA user : Truthy(user.userId))
        ELSE all

\* the entries of 'room-users': the other members of the room, in the room's
\* order; part_002 drops the entries without userId (id names the connection
\* an entry was built from)
Others(variant, socks, clients, id) ==
    LET all == [i \in 1..Len(Without(clients, id)) |->
                  LET c == Without(clients, id)[i]
                  IN  [id |-> c, userId |-> socks[c].userId,
                       userData |-> socks[c].userData]]
    IN  IF variant = 2
        THEN SelectSeq(all, LAMBDA user : Truthy(user.userId))
        ELSE all

\* variant of JoinEmit: io.to(roomId), the joining socket included
JoinEmitToAll(id, roomId, userId, userData) ==
    {Emit(to, "user-connected", userId, userData) :
       to \in Range(RoomAdd(rooms, roomId, id)[roomId])}

\* what join-room emits to the room once the socket is in it:
\* socket.to(roomId).emit('user-connected', {userId, ...userData})
JoinEmit(id, roomId, userId, userData) ==
    LET joined == RoomAdd(rooms, roomId, id)
    IN  {Emit(to, "user-connected", userId, userData) :
           to \in Range(joined[roomId]) \ Range(joined[id])}

\* socket.on('join-room', (roomId, userId, userData) => ...)
OnJoinRoom(id, roomId, userId, userData) ==
    /\ id \in DOMAIN sockets
    /\ rooms' = RoomAdd(rooms, roomId, id)
    /\ sockets' = [sockets EXCEPT ![id] = [userId |-> userId,
                                           userData |-> userData]]
    /\ emitted' = JoinEmit(id, roomId, userId, userData)
    /\ roomUsers' = [to |-> id,
                     others |-> Others(serverVariant, sockets', Clients(roomId)', id)]
    /\ UNCHANGED <<serverVariant, nConnected, lifeVars>>

\* variant of FindTarget: the first member of the room, whatever its userId
FindTargetFirst(clients, targetUserId) ==
    IF clients = << >> THEN "" ELSE clients[1]

\* clients.find(clientId => ... clientSocket.userId === targetUserId): the
\* first member of the room bound to targetUserId, "" when there is none
FindTarget(clients, targetUserId) ==
    LET is == {i \in 1..Len(clients) :
                 /\ clients[i] \in DOMAIN sockets
                 /\ sockets[clients[i]].userId = targetUserId}
    IN  IF is = {} THEN "" ELSE clients[Min(is)]

\* variant of SignalEmit: without a target the signal goes to the whole room
SignalEmitOrBroadcast(id, roomId, targetUserId, signal) ==
    LET targetSocket == FindTarget(Clients(roomId), targetUserId)
    IN  {Emit(to, "signal", sockets[id].userId, signal) :
           to \in IF targetSocket # "" THEN ToRoom(targetSocket)
                  ELSE ToRoom(roomId)}

\* what the signal handler emits: if (targetSocket) io.to(targetSocket).emit(
\* 'signal', {userId: socket.userId, signal}), and nothing otherwise
SignalEmit(id, roomId, targetUserId, signal) ==
    LET targetSocket == FindTarget(Clients(roomId), targetUserId)
    IN  IF targetSocket # ""
        THEN {Emit(to, "signal", sockets[id].userId, signal) :
                to \in ToRoom(targetSocket)}
        ELSE {}

\* socket.on('signal', ({roomId, targetUserId, signal}) => ...)
OnSignal(id, roomId, targetUserId, signal) ==
    /\ id \in DOMAIN sockets
    /\ UNCHANGED <<serverVariant, sockets, rooms, nConnected, lifeVars>>
    /\ roomUsers' = NoRoomUsers
    /\ emitted' = SignalEmit(id, roomId, targetUserId, signal)

\* messageData is what the client sends: roomId, message, and possibly a
\* userId field of the client's choosing (Undefined: no such field)

\* variant of MessageSource: a userId field of messageData is passed on
MessageSourceFromData(id, messageData) ==
    IF messageData.userId # Undefined THEN messageData.userId
    ELSE sockets[id].userId

\* userId: socket.userId in the receive-message event
MessageSource(id, messageData) == sockets[id].userId

\* socket.to(messageData.roomId).emit('receive-message', {userId:
\* socket.userId, ..., message: messageData.message, ...})
SendMessageEmit(id, messageData) ==
    {Emit(to, "receive-message", MessageSource(id, messageData),
          messageData.message) :
       to \in ToRoomExceptSender(id, messageData.roomId)}

\* what the send-message handler emits for a messageData with roomId and
\* message only
MessageEmit(id, roomId, message) ==
    SendMessageEmit(id, [roomId |-> roomId, message |-> message,
                         userId |-> Undefined])

\* socket.on('send-message', (messageData) => ...)
OnSendMessage(id, roomId, message) ==
    /\ id \in DOMAIN sockets
    /\ UNCHANGED <<serverVariant, sockets, rooms, nConnected, lifeVars>>
    /\ roomUsers' = NoRoomUsers
    /\ emitted' = MessageEmit(id, roomId, message)

\* transport disconnect: socket.io removes the socket from io.sockets.sockets
\* and from every room; the handler itself only logs
OnDisconnect(id) ==
    /\ id \in DOMAIN sockets
    /\ sockets' = MapDelete(sockets, id)
    /\ rooms' = RoomsDelAll(rooms, id)
    /\ emitted' = {}
    /\ roomUsers' = NoRoomUsers
    /\ UNCHANGED <<serverVariant, nConnected, lifeVars>>

SockConnection == OnConnection /\ UNCHANGED relayVars

SockJoinRoom ==
    /\ \E id \in DOMAIN sockets, roomId \in RoomNames, userId \in UserIds,
          userData \in UserDatas : OnJoinRoom(id, roomId, userId, userData)
    /\ UNCHANGED relayVars

SockSignal ==
    /\ \E id \in DOMAIN sockets, roomId \in RoomNames,
          targetUserId \in TargetUserIds, signal \in Signals :
          OnSignal(id, roomId, targetUserId, signal)
    /\ UNCHANGED relayVars

SockSendMessage ==
    /\ \E id \in DOMAIN sockets, roomId \in RoomNames, message \in Messages :
          OnSendMessage(id, roomId, message)
    /\ UNCHANGED relayVars

SockDisconnect ==
    /\ \E id \in DOMAIN sockets : OnDisconnect(id)
    /\ UNCHANGED relayVars

NextSock ==
    SockConnection \/ SockJoinRoom \/ SockSignal \/ SockSendMessage \/ SockDisconnect

InitSockets == InitLife /\ InitSock /\ serverVariant \in {1, 2}

SpecSock == InitSockets /\ [][NextSock]_vars

(***************************************************************************)
(* Specification of the signal relay with its history: the signal events  *)
(* handled, and the packets each emit wrote to the outbound stream of a    *)
(* connection.  Clients give every signal its own payload, which tells the *)
(* packets apart: the k-th signal event carries the k-th payload.          *)
(***************************************************************************)
\* the payload of the next signal event
NextSignal == "sdp" \o ToString(Len(signalLog) + 1)

\* the payloads of the signal events handled so far
Sent == {signalLog[k].signal : k \in 1..Len(signalLog)}

\* the position of the event with that payload in signalLog
SentAt(signal) == CHOOSE k \in 1..Len(signalLog) : signalLog[k].signal = signal

\* a member of roomId is bound to targetUserId
Bound(roomId, targetUserId) ==
    \E c \in Range(Clients(roomId)) :
       c \in DOMAIN sockets /\ sockets[c].userId = targetUserId

\* socket.emit on each connection an emit reaches: the packet is appended to
\* that connection's outbound stream
WriteStreams(ss, id, out) ==
    [c \in DOMAIN ss |->
       IF \E e \in out : e.to = c
       THEN Append(ss[c], LET e == CHOOSE e \in out : e.to = c
                          IN  [from |-> id, userId |-> e.userId,
                               signal |-> e.payload])
       ELSE ss[c]]

RelayConnection ==
    /\ OnConnection
    /\ streams' = MapSet(streams, SocketId(nConnected + 1), << >>)
    /\ UNCHANGED <<signalLog, presence>>

RelayJoinRoom ==
    /\ \E id \in DOMAIN sockets, roomId \in RoomNames, userId \in UserIds,
          userData \in UserDatas : OnJoinRoom(id, roomId, userId, userData)
    /\ UNCHANGED relayVars

RelaySignal ==
    \E id \in DOMAIN sockets, roomId \in RoomNames,
       targetUserId \in UserIds, signal \in Signals \cap {NextSignal} :
       /\ OnSignal(id, roomId, targetUserId, signal)
       /\ signalLog' = Append(signalLog,
                              [from |-> id, roomId |-> roomId,
                               targetUserId |-> targetUserId, signal |-> signal,
                               bound |-> Bound(roomId, targetUserId)])
       /\ streams' = WriteStreams(streams, id, emitted')
       /\ UNCHANGED presence

RelayDisconnect ==
    /\ \E id \in DOMAIN sockets : OnDisconnect(id)
    /\ UNCHANGED relayVars

NextRelay == RelayConnection \/ RelayJoinRoom \/ RelaySignal \/ RelayDisconnect

SpecRelay == InitSockets /\ [][NextRelay]_vars

(***************************************************************************)
(* Properties.                                                             *)
(***************************************************************************)
\* the stored record with identity mid, in the given stores
HasRecord(db, mem, mid) ==
    \/ \E d \in DOMAIN db : db[d].mid = mid
    \/ \E c \in DOMAIN mem : mem[c].mid = mid
RecordOf(db, mem, mid) ==
    IF \E d \in DOMAIN db : db[d].mid = mid
    THEN db[CHOOSE d \in DOMAIN db : db[d].mid = mid]
    ELSE mem[CHOOSE c \in DOMAIN mem : mem[c].mid = mid]

\* the meeting with identity mid is active in the given stores
ActiveIn(db, mem, mid) == HasRecord(db, mem, mid) /\ RecordOf(db, mem, mid).isActive

\* what GET /api/room/:roomCode answers on the given stores
GetStatus(db, mem, roomCode, getOk) ==
    LET ids == {d \in DOMAIN db : db[d].roomCode = roomCode}
    IN  IF getOk /\ ids # {}
        THEN IF db[Min(ids)].isActive THEN 200 ELSE 404
        ELSE IF roomCode \in DOMAIN mem /\ mem[roomCode].isActive THEN 200 ELSE 404

C2_JoinAppendsOne ==
    [][\A roomCode \in RoomCodes, password \in JoinPasswords, o \in Outcomes2 :
          LET m == Lookup(roomCode, o[1])
          IN  (/\ m.src # "none"
               /\ JoinRoom(roomCode, "name", password,
                           NewUserId(m.rec.mid, m.rec.participants), o[1], o[2])
               /\ res'.status = 200)
              => /\ res'.settings = <<m.rec.settings>>
                 /\ HasRecord(meetings', inMemoryRooms', m.rec.mid)
                 /\ LET after == RecordOf(meetings', inMemoryRooms', m.rec.mid)
                    IN  /\ Len(after.participants) = Len(m.rec.participants) + 1
                        /\ ActiveCount(after.participants)
                             = ActiveCount(m.rec.participants) + 1]_vars

\* C3: a join to an active meeting with a password, giving another password
\* (or none), is answered 401 and changes neither store
C3_WrongPasswordRejected ==
    [][res'.op = "join" =>
       \A roomCode \in RoomCodes, password \in JoinPasswords, o \in Outcomes2 :
          LET m == Lookup(roomCode, o[1])
          IN  (/\ m.src # "none"
               /\ m.rec.isActive
               /\ m.rec.settings.password # ""
               /\ password # m.rec.settings.password
               /\ JoinRoom(roomCode, "name", password,
                           NewUserId(m.rec.mid, m.rec.participants), o[1], o[2]))
              => /\ res'.status = 401
                 /\ meetings' = meetings
                 /\ inMemoryRooms' = inMemoryRooms]_vars

\* a join was answered 401
C3_Witness == res.op = "join" /\ res.status = 401

\* C4: a join that passes the password check, to an active meeting whose
\* active participants are maxParticipants or more, is answered 403 and
\* changes neither store
C4_FullRoomRejected ==
    [][(/\ res'.op = "join"
        /\ \E r \in StoredRecords :
              ActiveCount(r.participants) >= DefaultMaxParticipants) =>
       \A roomCode \in RoomCodes, password \in JoinPasswords, o \in Outcomes2 :
          LET m == Lookup(roomCode, o[1])
          IN  (/\ m.src # "none"
               /\ m.rec.isActive
               /\ (m.rec.settings.password = ""
                   \/ password = m.rec.settings.password)
               /\ ActiveCount(m.rec.participants) >= DefaultMaxParticipants
               /\ JoinRoom(roomCode, "name", password,
                           NewUserId(m.rec.mid, m.rec.participants), o[1], o[2]))
              => /\ res'.status = 403
                 /\ meetings' = meetings
                 /\ inMemoryRooms' = inMemoryRooms]_vars

\* a join was answered 403 by a meeting with exactly maxParticipants active
\* participants, some of its participants having left
C4_Witness ==
    /\ res.op = "join" /\ res.status = 403
    /\ \E r \in StoredRecords :
          /\ ActiveCount(r.participants) = DefaultMaxParticipants
          /\ Len(r.participants) > DefaultMaxParticipants

\* C5: a leave by the only active participant of an active meeting
\* terminates that meeting, and get answers 404 afterwards
C5_LastLeaveTerminates ==
    [][\A roomId \in RoomCodes, o \in Outcomes3 :
          \A r \in StoredRecords :
             \A i \in 1..Len(r.participants) :
                (/\ r.roomCode = roomId
                 /\ r.isActive
                 /\ ~r.participants[i].leftAt
                 /\ ActiveCount(r.participants) = 1
                 /\ LeaveRoom(roomId, r.participants[i].userId, o[1], o[2], o[3]))
                => /\ ~ActiveIn(meetings', inMemoryRooms', r.mid)
                   /\ \A getOk \in BOOLEAN :
                         GetStatus(meetings', inMemoryRooms', roomId, getOk) = 404]_vars

\* C6: end on a meeting found, by a user id that is not its hostUserId, is
\* answered 403 and changes neither store
C6_NonHostEndForbidden ==
    [][res'.op = "end" =>
       \A roomId \in RoomCodes, o \in Outcomes2 :
          \A userId \in UserIdsFor(roomId) :
             LET m == Lookup(roomId, o[1])
             IN  (/\ m.src # "none"
                  /\ userId # m.rec.hostUserId
                  /\ EndRoom(roomId, userId, o[1], o[2]))
                 => /\ res'.status = 403
                    /\ meetings' = meetings
                    /\ inMemoryRooms' = inMemoryRooms]_vars

\* an end was answered 403 while the meeting is active with a joiner in it
C6_Witness ==
    /\ res.op = "end" /\ res.status = 403
    /\ \E r \in StoredRecords : r.isActive /\ ActiveCount(r.participants) >= 2

\* C7: once end by the host is answered with success the meeting is
\* terminated: it is active in neither store and get answers 404
C7_HostEndTerminates ==
    [][\A roomId \in RoomCodes, o \in Outcomes2 :
          LET m == Lookup(roomId, o[1])
          IN  (/\ m.src # "none"
               /\ EndRoom(roomId, m.rec.hostUserId, o[1], o[2])
               /\ res'.status = 200)
              => /\ ~ActiveIn(meetings', inMemoryRooms', m.rec.mid)
                 /\ \A getOk \in BOOLEAN :
                       GetStatus(meetings', inMemoryRooms', roomId, getOk) = 404]_vars

\* the meeting with identity mid was created and is no longer active
Terminated(db, mem, mid) == ~ActiveIn(db, mem, mid)

\* C8: a meeting that has become inactive (its document has isActive =
\* false, or its inMemoryRooms record is gone) never becomes active again
C8_InactiveIsTerminal ==
    [][\A mid \in 1..nCreated :
          Terminated(meetings, inMemoryRooms, mid)
          => Terminated(meetings', inMemoryRooms', mid)]_vars

\* a join was refused with 404 on a meeting ended before
C8_Witness ==
    /\ res.op = "join" /\ res.status = 404
    /\ \E mid \in 1..nCreated : Terminated(meetings, inMemoryRooms, mid)

C10_OneHost ==
    \A r \in StoredRecords :
       /\ Cardinality({i \in 1..Len(r.participants) : r.participants[i].isHost}) = 1
       /\ r.participants[1].isHost
       /\ r.participants[1].userId = r.hostUserId
       /\ r.hostUserId = NewUserId(r.mid, << >>)

\* a stored meeting holds a participant added by join
C10_Witness ==
    /\ res.op = "join" /\ res.status = 200
    /\ \E r \in StoredRecords : Len(r.participants) >= 2

\* the participant p is kept by the list ps: an entry with its userId is in
\* ps, and one with leftAt set if p has left
KeptIn(p, ps) ==
    \E j \in 1..Len(ps) :
       ps[j].userId = p.userId /\ (p.leftAt => ps[j].leftAt)

\* C11: across every step of interleaved join and leave requests, each
\* participant of a stored record is still in that record afterwards, and
\* one whose leftAt was set still has it set
C11_ParticipantsAppendOnly ==
    [][\A mid \in 1..nCreated :
          (/\ HasRecord(meetings, inMemoryRooms, mid)
           /\ HasRecord(meetings', inMemoryRooms', mid))
          => LET before == RecordOf(meetings, inMemoryRooms, mid).participants
                 after == RecordOf(meetings', inMemoryRooms', mid).participants
             IN  \A i \in 1..Len(before) : KeptIn(before[i], after)]_vars

\* C12: between requests no stored meeting is active with no active
\* participant (a document is inactive, an inMemoryRooms record is gone, as
\* soon as its last participant has left)
C12_NoActiveEmptyMeeting ==
    \A r \in StoredRecords : r.isActive => ActiveCount(r.participants) > 0

\* C13: leave(roomId, userId) on the active meeting that a lookup of roomId
\* finds, holding an active participant with that userId, leaves the stored
\* record (while it is kept) with leftAt set on a participant with that
\* userId, whatever the store calls of the request do
C13_LeaveMarksParticipant ==
    [][res'.op = "leave" =>
       \A roomId \in RoomCodes, o \in Outcomes3 :
          LET r == Lookup(roomId, TRUE).rec
          IN  \A i \in 1..Len(r.participants) :
                 (/\ r.isActive
                  /\ ~r.participants[i].leftAt
                  /\ LeaveRoom(roomId, r.participants[i].userId, o[1], o[2], o[3])
                  /\ HasRecord(meetings', inMemoryRooms', r.mid))
                 => \E j \in 1..Len(RecordOf(meetings', inMemoryRooms', r.mid).participants) :
                       LET q == RecordOf(meetings', inMemoryRooms', r.mid).participants[j]
                       IN  q.userId = r.participants[i].userId /\ q.leftAt]_vars

CopiesIn(db, mem, mid) ==
    Cardinality({d \in DOMAIN db : db[d].mid = mid})
    + Cardinality({c \in DOMAIN mem : mem[c].mid = mid})

\* C15: create with a roomName and a username is answered 201 with the
\* roomCode, meetingId and userId of the new record, which is stored once:
\* in the collection when Meeting.create succeeded and the Map is untouched,
\* in the Map when it failed and the collection is untouched
C15_CreateStoresOnce ==
    [][res'.op = "create" =>
       \A password \in CreatePasswords, roomCode \in RoomCodes,
          docId \in DocIds, createOk \in BOOLEAN :
          LET mid == nCreated + 1
              userId == NewUserId(mid, << >>)
          IN  CreateRoom("name", "name", password, roomCode, userId, docId, createOk)
              => /\ res'.status = 201
                 /\ res'.roomCode = roomCode
                 /\ res'.userId = userId
                 /\ res'.meetingId = NewMeetingId(mid)
                 /\ CopiesIn(meetings', inMemoryRooms', mid) = 1
                 /\ LET rec == RecordOf(meetings', inMemoryRooms', mid)
                    IN  /\ rec.roomCode = roomCode
                        /\ rec.meetingId = res'.meetingId
                        /\ rec.hostUserId = userId
                        /\ rec.isActive
                 /\ IF createOk
                    THEN /\ docId \in DOMAIN meetings' /\ meetings'[docId].mid = mid
                         /\ inMemoryRooms' = inMemoryRooms
                    ELSE /\ roomCode \in DOMAIN inMemoryRooms'
                         /\ inMemoryRooms'[roomCode].mid = mid
                         /\ meetings' = meetings]_vars

\* the last request was a create whose record went to inMemoryRooms
C15_Witness ==
    /\ res.op = "create" /\ res.status = 201
    /\ \E c \in DOMAIN inMemoryRooms :
          /\ inMemoryRooms[c].mid = nCreated
          /\ inMemoryRooms[c].meetingId = res.meetingId
          /\ c = res.roomCode

\* C16: with requests served one at a time, no stored meeting has more
\* active participants than its settings.maxParticipants, in either store
C16_NeverOverCapacity ==
    \A r \in StoredRecords :
       ActiveCount(r.participants) <= r.settings.maxParticipants

\* C17: a join that passed the capacity check is answered with success when
\* its Meeting.update completes, whatever the stored document holds by
\* then, and a write that lands stores the list the handler built from the
\* document it had read; so two joins that both read the document with one
\* free place are both answered with success
C17_JoinWriteIsUnchecked ==
    [][\A h \in Handlers, updOk \in BOOLEAN :
          JoinUpdate(h, updOk)
          => /\ res'.op = "join" /\ res'.status = 200
             /\ inflight'[h].status = 200
             /\ UpdateSucceeds(inflight[h], updOk)
                => meetings'[inflight[h].id].participants
                     = inflight[h].rec.participants]_vars

\* both handlers answered a join of the same document with success, each
\* having counted maxParticipants - 1 active participants
C17_Witness ==
    /\ \A h \in Handlers :
          /\ inflight[h].op = "join" /\ inflight[h].pc = "done"
          /\ inflight[h].status = 200
          /\ inflight[h].src = "db"
          /\ inflight[h].activeParticipants = DefaultMaxParticipants - 1
    /\ \A g, h \in Handlers : inflight[g].id = inflight[h].id

\* the packets of all outbound streams, as <<connection, position>>
Packets == UNION {{<<c, i>> : i \in 1..Len(streams[c])} : c \in DOMAIN streams}

\* no packet carries a signal that was handled while its target was bound to
\* no member of the room
DroppedNeverDelivered ==
    \A k \in 1..Len(signalLog) :
       ~signalLog[k].bound
       => \A p \in Packets : streams[p[1]][p[2]].signal # signalLog[k].signal

\* C18: a signal event whose targetUserId is bound to no member of roomId
\* delivers nothing, sends nothing back, leaves the connections and the
\* rooms as they were, and its signal is in no outbound stream then or at
\* any later time (also after the target has joined)
C18_UnboundSignalDropped ==
    [][/\ DroppedNeverDelivered'
       /\ (/\ Len(signalLog') > Len(signalLog)
           /\ ~signalLog'[Len(signalLog')].bound)
          => /\ emitted' = {}
             /\ roomUsers' = NoRoomUsers
             /\ UNCHANGED <<sockets, rooms, streams>>]_vars

\* a signal was dropped and a member of its room is now bound to its target
C18_Witness ==
    \E k \in 1..Len(signalLog) :
       /\ ~signalLog[k].bound
       /\ Bound(signalLog[k].roomId, signalLog[k].targetUserId)

\* C19: a signal is in at most one packet of all outbound streams, and two
\* packets of one connection that come from the same source connection are
\* in the stream in the order their signal events were handled
C19_SignalOrder ==
    /\ \A p, q \in Packets :
          streams[p[1]][p[2]].signal = streams[q[1]][q[2]].signal => p = q
    /\ \A c \in DOMAIN streams :
          \A i, j \in 1..Len(streams[c]) :
             /\ streams[c][i].signal \in Sent
             /\ (i < j /\ streams[c][i].from = streams[c][j].from)
                => SentAt(streams[c][i].signal) < SentAt(streams[c][j].signal)

\* a connection was sent two signals by the same source connection
C19_Witness ==
    \E c \in DOMAIN streams :
       /\ Len(streams[c]) >= 2
       /\ streams[c][1].from = streams[c][2].from

NextDisc ==
    CreateOne \/ SockConnection \/ SockJoinRoom \/ SockDisconnect

SpecDisc == InitSockets /\ [][NextDisc]_vars

\* the connections that were accepted and have disconnected
Gone == {SocketId(n) : n \in 1..nConnected} \ DOMAIN sockets

\* no room, no delivered event, no room-users snapshot and nothing a signal
\* or send-message handler would emit names a connection that has gone
GoneIsOut ==
    \A id \in Gone :
       /\ \A r \in DOMAIN rooms : id \notin Range(rooms[r])
       /\ \A e \in emitted : e.to # id
       /\ roomUsers.to # id
       /\ \A i \in 1..Len(roomUsers.others) : roomUsers.others[i].id # id
       /\ \A from \in DOMAIN sockets, roomId \in RoomNames :
             /\ \A targetUserId \in TargetUserIds, signal \in Signals :
                   \A e \in SignalEmit(from, roomId, targetUserId, signal) :
                      e.to # id
             /\ \A message \in Messages :
                   \A e \in MessageEmit(from, roomId, message) : e.to # id

\* C21: a transport disconnect takes the connection out of every room, so
\* that from then on it is in no room-users snapshot, no signal reaches it
\* and no event is delivered to it, and the step changes no record of the
\* Firestore collection or of inMemoryRooms (no leftAt set, same active
\* count)
C21_DisconnectLeavesRecords ==
    /\ []GoneIsOut
    /\ [][(nConnected' = nConnected /\ DOMAIN sockets' # DOMAIN sockets)
             => /\ meetings' = meetings
                /\ inMemoryRooms' = inMemoryRooms]_vars

\* a connection has disconnected, another one is in a room, and a stored meeting still counts its host as active
C21_Witness ==
    /\ Gone # {}
    /\ \E r \in RoomNames : Clients(r) # << >>
    /\ \E rec \in StoredRecords : rec.isActive /\ ActiveCount(rec.participants) = 1

(***************************************************************************)
(* The socket handlers with one room name more than RoomNames, so that a   *)
(* connection can send join-room for a second room.                        *)
(***************************************************************************)
MoreRoomNames == RoomNames \cup {"room" \o ToString(MaxRooms + 1)}

MoveJoinRoom ==
    /\ \E id \in DOMAIN sockets, roomId \in MoreRoomNames, userId \in UserIds,
          userData \in UserDatas : OnJoinRoom(id, roomId, userId, userData)
    /\ UNCHANGED relayVars

MoveSendMessage ==
    /\ \E id \in DOMAIN sockets, roomId \in MoreRoomNames, message \in Messages :
          OnSendMessage(id, roomId, message)
    /\ UNCHANGED relayVars

NextMove == SockConnection \/ MoveJoinRoom \/ MoveSendMessage \/ SockDisconnect

SpecMove == InitSockets /\ [][NextMove]_vars

\* the rooms joined by name that a connection is a member of
JoinedRooms(id) == {r \in MoreRoomNames : id \in Range(Clients(r))}

\* C22: a connection is a member of at most one room joined by name: a
\* join-room for a second room takes it out of the first one
C22_AtMostOneRoom ==
    \A id \in DOMAIN sockets : Cardinality(JoinedRooms(id)) <= 1

(***************************************************************************)
(* generateRoomCode and generateMeetingId, one loop iteration per step.    *)
(* A string is the sequence of its characters; Math.random() is a number   *)
(* of thousandths in [0, 1).                                               *)
(***************************************************************************)
\* const chars = 'ABCDEFGHIJKLMNOPQRSTUVWXYZ0123456789'
Chars == <<"A", "B", "C", "D", "E", "F", "G", "H", "I", "J", "K", "L", "M",
           "N", "O", "P", "Q", "R", "S", "T", "U", "V", "W", "X", "Y", "Z",
           "0", "1", "2", "3", "4", "5", "6", "7", "8", "9">>

\* the values Math.random() returns, in thousandths: the smallest, one in
\* the middle and the largest
RandomOutcomes == {0, 500, 999}

\* the loop bounds: for (let i = 0; i < 10; i++), for (let i = 0; i < 9; i++)
RoomCodeLength == 10
MeetingIdLength == 9
Generators == {"generateRoomCode", "generateMeetingId"}
LoopBound(fn) == IF fn = "generateRoomCode" THEN RoomCodeLength ELSE MeetingIdLength

\* variant of RandomIndex: rounded to the nearest integer
RandomIndexRounded(random) == (random * Len(Chars) + 500) \div 1000

\* Math.floor(Math.random() * chars.length)
RandomIndex(random) == (random * Len(Chars)) \div 1000

\* chars.charAt(index): the empty string outside the string
CharAt(index) == IF index \in 0..(Len(Chars) - 1) THEN Chars[index + 1] ELSE ""

\* result += c
Concat(result, c) == IF c = "" THEN result ELSE Append(result, c)

\* let result = ''; let i = 0
GenCall ==
    /\ generated.fn = "" \/ generated.returned
    /\ \E fn \in Generators :
          generated' = [fn |-> fn, i |-> 0, result |-> << >>, returned |-> FALSE]
    /\ UNCHANGED <<storeVars, connVars, twin, queueVars>>

\* one iteration of the loop body
GenLoop ==
    /\ generated.fn # "" /\ ~generated.returned
    /\ generated.i < LoopBound(generated.fn)
    /\ \E random \in RandomOutcomes :
          generated' = [generated EXCEPT
                          !.result = Concat(@, CharAt(RandomIndex(random))),
                          !.i = @ + 1]
    /\ UNCHANGED <<storeVars, connVars, twin, queueVars>>

\* return result
GenReturn ==
    /\ generated.fn # "" /\ ~generated.returned
    /\ ~(generated.i < LoopBound(generated.fn))
    /\ generated' = [generated EXCEPT !.returned = TRUE]
    /\ UNCHANGED <<storeVars, connVars, twin, queueVars>>

NextGen == GenCall \/ GenLoop \/ GenReturn

SpecGen == Init /\ [][NextGen]_vars

\* C23: whatever Math.random() returns, generateRoomCode returns 10
\* characters and generateMeetingId 9, each of them one of the 36 symbols
\* A-Z, 0-9
C23_GeneratedCodes ==
    generated.returned =>
       /\ generated.fn = "generateRoomCode" => Len(generated.result) = 10
       /\ generated.fn = "generateMeetingId" => Len(generated.result) = 9
       /\ \A k \in 1..Len(generated.result) :
             generated.result[k] \in
                {"A", "B", "C", "D", "E", "F", "G", "H", "I", "J", "K", "L",
                 "M", "N", "O", "P", "Q", "R", "S", "T", "U", "V", "W", "X",
                 "Y", "Z", "0", "1", "2", "3", "4", "5", "6", "7", "8", "9"}

\* a room code was returned that ends with the last symbol of the alphabet
\* (Math.random() close to 1) and starts with the first one
C23_Witness ==
    /\ generated.returned
    /\ generated.fn = "generateRoomCode"
    /\ generated.result[1] = "A"
    /\ generated.result[Len(generated.result)] = "9"

\* C24: GET /api/room/:roomCode writes to neither store; it answers 404 when
\* neither store has a record for roomCode or the record it finds (the
\* Firestore document if that lookup succeeds and finds one, the Map entry
\* otherwise) is inactive, and otherwise 200 with participantCount the
\* number of participants of that record without leftAt
C24_GetIsReadOnly ==
    [][res'.op = "get" =>
         \A roomCode \in RoomCodes, getOk \in BOOLEAN :
            GetRoom(roomCode, getOk) =>
               LET ids == {d \in DOMAIN meetings : meetings[d].roomCode = roomCode}
                   inDb == getOk /\ ids # {}
                   inMem == roomCode \in DOMAIN inMemoryRooms
                   found == IF inDb THEN meetings[Min(ids)]
                            ELSE inMemoryRooms[roomCode]
               IN  /\ meetings' = meetings
                   /\ inMemoryRooms' = inMemoryRooms
                   /\ IF (~inDb /\ ~inMem) \/ ~found.isActive
                      THEN res'.status = 404
                      ELSE /\ res'.status = 200
                           /\ res'.participantCount =
                                 Cardinality({i \in 1..Len(found.participants) :
                                                ~found.participants[i].leftAt})]_vars

\* get answered 200 with the count of a stored record that has a
\* participant who left
C24_Witness ==
    /\ res.op = "get"
    /\ res.status = 200
    /\ \E rec \in StoredRecords :
          /\ rec.isActive
          /\ rec.roomCode = res.roomCode
          /\ res.participantCount < Len(rec.participants)
          /\ \E i \in 1..Len(rec.participants) : rec.participants[i].leftAt

\* C26: a join with roomCode and username answers 404 when neither store
\* has a record for roomCode or the record the lookup finds is inactive, and
\* then no record of either store gets a participant
C26_JoinNotFound ==
    [][res'.op = "join" =>
         \A roomCode \in RoomCodes, password \in JoinPasswords, o \in Outcomes2 :
            LET ids == {d \in DOMAIN meetings : meetings[d].roomCode = roomCode}
                inDb == o[1] /\ ids # {}
                inMem == roomCode \in DOMAIN inMemoryRooms
                found == IF inDb THEN meetings[Min(ids)]
                         ELSE IF inMem THEN inMemoryRooms[roomCode] ELSE NoRec
            IN  (/\ (~inDb /\ ~inMem) \/ ~found.isActive
                 /\ JoinRoom(roomCode, "name", password,
                             NewUserId(found.mid, found.participants), o[1], o[2]))
                => /\ res'.status = 404
                   /\ meetings' = meetings
                   /\ inMemoryRooms' = inMemoryRooms]_vars

\* a join was answered 404 for the room code of a Firestore document that
\* is not active
C26_Witness ==
    /\ res.op = "join"
    /\ res.status = 404
    /\ \E d \in DOMAIN meetings :
          /\ ~meetings[d].isActive
          /\ \A dd \in DOMAIN meetings : meetings[dd].roomCode = meetings[d].roomCode
          /\ meetings[d].roomCode \notin DOMAIN inMemoryRooms

C28_SenderIsInTheRoom ==
    \A id \in DOMAIN sockets, roomId \in RoomNames,
       targetUserId \in TargetUserIds, signal \in Signals :
       SignalEmit(id, roomId, targetUserId, signal) # {}
          => id \in Range(Clients(roomId))

\* C30: a create without roomName or without a host name answers 400,
\* echoes the body it received and writes to neither store; a join without
\* roomCode or without username answers 400 and writes to neither store
C30_MissingFieldRejected ==
    [][res'.op \in {"create", "join"} =>
         /\ \A roomName \in Names, username \in Names :
               (/\ roomName \in {Undefined, ""} \/ username \in {Undefined, ""}
                /\ CreateRoom(roomName, username, NoPassword, "", NoUser, 0, TRUE))
               => /\ res'.status = 400
                  /\ res'.received = <<[roomName |-> roomName,
                                        username |-> username,
                                        password |-> NoPassword]>>
                  /\ meetings' = meetings
                  /\ inMemoryRooms' = inMemoryRooms
         /\ \A roomCode \in RoomCodes \cup {"", Undefined}, username \in Names :
               (/\ roomCode \in {Undefined, ""} \/ username \in {Undefined, ""}
                /\ JoinRoom(roomCode, username, NoPassword, NoUser, TRUE, TRUE))
               => /\ res'.status = 400
                  /\ meetings' = meetings
                  /\ inMemoryRooms' = inMemoryRooms]_vars

\* a create with a room name and no host name was answered 400 with the
\* body echoed
C30_Witness ==
    /\ res.op = "create"
    /\ res.status = 400
    /\ res.received # << >>
    /\ res.received[1].roomName = "name"
    /\ res.received[1].username = Undefined

(***************************************************************************)
(* The lifecycle routes with one create request more than MaxMeetings, so  *)
(* that generateRoomCode can return a room code a second time and both     *)
(* stores can hold a record under it.                                      *)
(***************************************************************************)
CreateAgain ==
    /\ nCreated < MaxMeetings + 1
    /\ \E password \in CreatePasswords, roomCode \in RoomCodes,
          docId \in DocIds, createOk \in BOOLEAN :
          CreateRoom("name", "name", password, roomCode,
                     NewUserId(nCreated + 1, <<>>), docId, createOk)
    /\ UNCHANGED <<sockVars, inflight>>

NextBoth == CreateAgain \/ Join \/ End \/ Get

SpecBoth == Init /\ [][NextBoth]_vars

\* both stores hold a record under roomCode
InBothStores(roomCode) ==
    /\ \E d \in DOMAIN meetings : meetings[d].roomCode = roomCode
    /\ roomCode \in DOMAIN inMemoryRooms

\* C29: when both stores hold a record under a room code and the lookup in
\* Firestore succeeds, a join or an end for that room code leaves the
\* record of inMemoryRooms as it was
C29_FallbackUntouched ==
    [][res'.op \in {"join", "end"} =>
         \A roomCode \in RoomCodes, o \in Outcomes2 :
            (InBothStores(roomCode) /\ o[1]) =>
               /\ \A password \in JoinPasswords :
                     LET meeting == Lookup(roomCode, o[1]).rec
                     IN  JoinRoom(roomCode, "name", password,
                                  NewUserId(meeting.mid, meeting.participants),
                                  o[1], o[2])
                         => inMemoryRooms' = inMemoryRooms
               /\ \A userId \in UserIdsFor(roomCode) :
                     EndRoom(roomCode, userId, o[1], o[2])
                        => inMemoryRooms' = inMemoryRooms]_vars

(***************************************************************************)
(* The same requests sent for two meetings: each request goes first to the *)
(* meeting whose create found Firestore working, with every store call     *)
(* succeeding, then to the meeting whose create found Firestore failing.   *)
(* A caller sends the userId the server gave it.                           *)
(***************************************************************************)
AuthoritativeCode == "RCA"
FallbackCode == "RCF"
TwinOps == {"create", "join", "leave", "end", "get"}

\* the userId the server gave to the who-th caller, for either meeting
UserA(who) == IF who = 0 THEN NoUser ELSE twin.users[who].a
UserB(who) == IF who = 0 THEN NoUser ELSE twin.users[who].b

\* the request op served for the record under roomCode
TwinRequest(op, roomCode, password, userId, docId, getOk, updOk) ==
    \/ /\ op = "create"
       /\ CreateRoom("name", "name", password, roomCode,
                     NewUserId(nCreated + 1, <<>>), docId, updOk)
    \/ /\ op = "join"
       /\ LET meeting == Lookup(roomCode, getOk).rec
          IN  JoinRoom(roomCode, "name", password,
                       NewUserId(meeting.mid, meeting.participants), getOk, updOk)
    \/ /\ op = "leave"
       /\ LeaveRoom(roomCode, userId, getOk, updOk, updOk)
    \/ /\ op = "end"
       /\ EndRoom(roomCode, userId, getOk, updOk)
    \/ /\ op = "get"
       /\ GetRoom(roomCode, getOk)

TwinFirst ==
    /\ twin.phase = "idle"
    /\ \E op \in TwinOps, password \in JoinPasswords, who \in 0..Len(twin.users) :
          /\ op = "create" => nCreated = 0 /\ password \in CreatePasswords
          /\ op = "join" => Len(twin.users) < MaxStored
          /\ op \in {"create", "join", "get"} => who = 0
          /\ op \in {"leave", "end", "get"} => password = NoPassword
          /\ TwinRequest(op, AuthoritativeCode, password, UserA(who),
                         Min(DocIds), TRUE, TRUE)
          /\ twin' = [twin EXCEPT !.phase = "first", !.op = op,
                                  !.password = password, !.who = who,
                                  !.first = Seen(res'),
                                  !.firstUser = res'.userId]
    /\ UNCHANGED <<connVars, inflight, generated, queueVars>>

\* the store calls made for the second meeting fail, or the lookup resolves
\* without a document
TwinSecond ==
    /\ twin.phase = "first"
    /\ \E getOk \in BOOLEAN :
          TwinRequest(twin.op, FallbackCode, twin.password, UserB(twin.who),
                      0, getOk, FALSE)
    /\ twin' = [twin EXCEPT
                  !.phase = "idle",
                  !.second = Seen(res'),
                  !.users = IF /\ twin.op \in {"create", "join"}
                               /\ twin.first.status \in {200, 201}
                               /\ res'.status \in {200, 201}
                            THEN Append(@, [a |-> twin.firstUser,
                                            b |-> res'.userId])
                            ELSE @]
    /\ UNCHANGED <<connVars, inflight, generated, queueVars>>

NextTwin == TwinFirst \/ TwinSecond

SpecTwin == Init /\ [][NextTwin]_vars

\* C25: the same requests get the same answers (status and reported
\* participant count) whether the meeting is stored in Firestore or in
\* inMemoryRooms
C25_BackendsAgree ==
    twin.phase = "idle" => twin.second = twin.first

\* C31: a join answers 404 for an absent or inactive record whatever the
\* password; otherwise 401 for a wrong password to a protected meeting,
\* full or not; otherwise 403 for a full meeting
C31_JoinChecksInOrder ==
    [][res'.op = "join" =>
         \A roomCode \in RoomCodes, password \in JoinPasswords, o \in Outcomes2 :
            LET ids == {d \in DOMAIN meetings : meetings[d].roomCode = roomCode}
                inDb == o[1] /\ ids # {}
                inMem == roomCode \in DOMAIN inMemoryRooms
                found == IF inDb THEN meetings[Min(ids)]
                         ELSE IF inMem THEN inMemoryRooms[roomCode] ELSE NoRec
                wrong == /\ found.settings.password # ""
                         /\ found.settings.password # password
                full == Cardinality({i \in 1..Len(found.participants) :
                                       ~found.participants[i].leftAt})
                           >= found.settings.maxParticipants
            IN  JoinRoom(roomCode, "name", password,
                         NewUserId(found.mid, found.participants), o[1], o[2])
                => res'.status = IF (~inDb /\ ~inMem) \/ ~found.isActive THEN 404
                                 ELSE IF wrong THEN 401
                                 ELSE IF full THEN 403
                                 ELSE 200]_vars

\* a join with a wrong password was answered 401 by a protected meeting
\* that is full
C31_Witness ==
    /\ res.op = "join"
    /\ res.status = 401
    /\ \E rec \in StoredRecords :
          /\ rec.isActive
          /\ rec.settings.password # ""
          /\ ActiveCount(rec.participants) >= rec.settings.maxParticipants

\* C32: the participant whose userId a join returned with 200 is in the
\* participant list of the stored record of that meeting, as long as the
\* record exists
C32_JoinIsDurable ==
    \A h \in Handlers :
       LET r == inflight[h]
       IN  (r.op = "join" /\ r.pc = "done" /\ r.status = 200) =>
              \A rec \in StoredRecords :
                 rec.mid = r.userId[1] =>
                    \E i \in 1..Len(rec.participants) :
                       rec.participants[i].userId = r.userId

\* the record a suspended request read is terminated in the stores: the
\* document is inactive, or the Map entry is gone
TerminatedFor(r) ==
    IF r.src = "db" THEN ~meetings[r.id].isActive
    ELSE \A c \in DOMAIN inMemoryRooms : inMemoryRooms[c].mid # r.rec.mid

\* C33: a join that responds after the meeting was terminated by an end or
\* a last leave does not answer 200 and writes no participant
C33_NoJoinAfterEnd ==
    [][\A h \in Handlers :
          (/\ inflight[h].op = "join"
           /\ inflight[h].pc = "update"
           /\ inflight'[h].pc = "done"
           /\ TerminatedFor(inflight[h]))
          => /\ inflight'[h].status # 200
             /\ meetings' = meetings
             /\ inMemoryRooms' = inMemoryRooms]_vars

(***************************************************************************)
(* The join-room and disconnect handlers with, for each connection, the    *)
(* record of what the events it received told it.                          *)
(***************************************************************************)
NoPresence == [snapshot |-> {}, connected |-> {}]

PresConnection ==
    /\ OnConnection
    /\ presence' = MapSet(presence, SocketId(nConnected + 1), NoPresence)
    /\ UNCHANGED <<signalLog, streams>>

\* the joiner reads its room-users snapshot, the receivers of user-connected
\* learn of the joiner
PresJoinRoom ==
    /\ \E id \in DOMAIN sockets, roomId \in RoomNames, userId \in UserIds,
          userData \in UserDatas :
          /\ OnJoinRoom(id, roomId, userId, userData)
          /\ presence' =
               [c \in DOMAIN presence |->
                  [snapshot |->
                     IF c = roomUsers'.to
                     THEN presence[c].snapshot \cup
                          {<<roomId, roomUsers'.others[i].id>> :
                             i \in 1..Len(roomUsers'.others)}
                     ELSE presence[c].snapshot,
                   connected |->
                     IF \E e \in emitted' : e.to = c /\ e.event = "user-connected"
                     THEN presence[c].connected \cup {<<roomId, id>>}
                     ELSE presence[c].connected]]
    /\ UNCHANGED <<signalLog, streams>>

PresDisconnect ==
    /\ \E id \in DOMAIN sockets :
          /\ OnDisconnect(id)
          /\ presence' = MapDelete(presence, id)
    /\ UNCHANGED <<signalLog, streams>>

NextPres == PresConnection \/ PresJoinRoom \/ PresDisconnect

SpecPres == InitSockets /\ [][NextPres]_vars

Sources(out) == {<<e.to, e.userId>> : e \in out}

\* C35: the userId in every signal and receive-message event a connection's
\* event produces is the userId bound to that connection, whatever the
\* event carries: every event that differs from a given one only in its
\* payload produces the same source userId for the same receivers
C35_SourceIsTheBoundUserId ==
    \A id \in DOMAIN sockets, roomId \in RoomNames :
       /\ \A targetUserId \in TargetUserIds :
             LET s1 == CHOOSE s \in Signals : TRUE
                 ref == SignalEmit(id, roomId, targetUserId, s1)
             IN  /\ \A e \in ref : e.userId = sockets[id].userId
                 /\ \A s2 \in Signals :
                       Sources(SignalEmit(id, roomId, targetUserId, s2))
                          = Sources(ref)
       /\ LET ref == MessageEmit(id, roomId, CHOOSE m \in Messages : TRUE)
          IN  /\ \A e \in ref : e.userId = sockets[id].userId
              /\ \A message \in Messages, userId \in UserIds \cup {Undefined} :
                    Sources(SendMessageEmit(id, [roomId |-> roomId,
                                                 message |-> message,
                                                 userId |-> userId]))
                       = Sources(ref)

\* a receive-message was delivered with the userId of a connection bound to
\* one userId while the room holds a connection bound to another
C35_Witness ==
    \E e \in emitted, from \in DOMAIN sockets :
       /\ e.event = "receive-message"
       /\ from # e.to
       /\ sockets[from].userId = e.userId
       /\ e.userId \in UserIds
       /\ sockets[e.to].userId \in UserIds \ {e.userId}

\* the passwords a meeting can be protected with
SetPasswords == JoinPasswords \ {NoPassword}

\* C36: what GET answers for an active record is the same for every
\* non-empty password the record could have, and has no password field,
\* neither at the top nor in its settings
C36_GetHidesThePassword ==
    \A rec \in StoredRecords :
       rec.isActive =>
          /\ \A p1 \in SetPasswords, p2 \in SetPasswords :
                GetSummary([rec EXCEPT !.settings.password = p1])
                   = GetSummary([rec EXCEPT !.settings.password = p2])
          /\ \A p \in SetPasswords :
                LET body == GetSummary([rec EXCEPT !.settings.password = p])
                IN  /\ "password" \notin DOMAIN body
                    /\ "password" \notin DOMAIN body.settings[1]
                    /\ body.isPasswordProtected

\* GET answered 200 for a meeting protected by a password
C36_Witness ==
    /\ res.op = "get"
    /\ res.status = 200
    /\ res.isPasswordProtected
    /\ \E rec \in StoredRecords :
          rec.roomCode = res.roomCode /\ rec.settings.password # ""

\* C37: a leave answers 200 whatever it finds, and it leaves both stores as
\* they were when no record is stored under the room code, or when every
\* record stored under it is active, has an active participant and has no
\* participant with the userId sent: a leave step that changes a store is
\* not a step of such a request
C37_LeaveOfAStranger ==
    [][res'.op = "leave" =>
         /\ res'.status = 200
         /\ \/ /\ meetings' = meetings
               /\ inMemoryRooms' = inMemoryRooms
            \/ \A roomId \in RoomCodes :
                  \A userId \in UserIdsFor(roomId) :
                     (\A r \in {x \in StoredRecords : x.roomCode = roomId} :
                         /\ r.isActive
                         /\ \E i \in 1..Len(r.participants) :
                               ~r.participants[i].leftAt
                         /\ \A i \in 1..Len(r.participants) :
                               r.participants[i].userId # userId)
                     => \A o \in Outcomes3 :
                           ~LeaveRoom(roomId, userId, o[1], o[2], o[3])]_vars

\* a leave was answered while an active record is stored in which nobody
\* has left
C37_Witness ==
    /\ res.op = "leave"
    /\ res.status = 200
    /\ StoredRecords # {}
    /\ \A rec \in StoredRecords :
          /\ rec.isActive
          /\ \A i \in 1..Len(rec.participants) : ~rec.participants[i].leftAt

(***************************************************************************)
(* Every request is answered.  A handler is pending from its lookup until  *)
(* its last `await Meeting.update(...)` has settled; the store settling    *)
(* each pending call, with either outcome, is the only assumption.         *)
(***************************************************************************)
Pending(h) == inflight[h].pc \notin {"idle", "done"}

\* the store settles the call handler h is suspended at
Completes(h) ==
    /\ \E updOk \in BOOLEAN :
          \/ JoinUpdate(h, updOk)
          \/ EndUpdate(h, updOk)
          \/ LeaveUpdate1(h, updOk)
          \/ LeaveUpdate2(h, updOk)
    /\ UNCHANGED sockVars

\* a join that sends the password the meeting was created with or none
LiveJoinLookup ==
    /\ \E h \in Handlers, roomCode \in RoomCodes, password \in CreatePasswords,
          getOk \in BOOLEAN :
          /\ SumLen(StoredRecords) < MaxStored
          /\ JoinLookup(h, roomCode, password,
                        ConcUserId(h, Lookup(roomCode, getOk).rec), getOk)
    /\ UNCHANGED sockVars

\* end and leave requests of the host, of a stranger and without a userId
LiveEndLookup ==
    /\ \E h \in Handlers, roomId \in RoomCodes, getOk \in BOOLEAN,
          userId \in FewUserIds : EndLookup(h, roomId, userId, getOk)
    /\ UNCHANGED sockVars

LiveLeaveLookup ==
    /\ \E h \in Handlers, roomId \in RoomCodes, getOk \in BOOLEAN,
          userId \in FewUserIds : LeaveLookup(h, roomId, userId, getOk)
    /\ UNCHANGED sockVars

\* the concurrent handlers around a single create
NextLive ==
    \/ CreateOne \/ Get
    \/ LiveJoinLookup \/ ConcJoinUpdate
    \/ LiveEndLookup \/ ConcEndUpdate
    \/ LiveLeaveLookup \/ ConcLeaveUpdate1 \/ ConcLeaveUpdate2

SpecLive == Init /\ [][NextLive]_vars /\ \A h \in Handlers : WF_vars(Completes(h))

ResponseStatuses == {200, 201, 400, 401, 403, 404, 500}

\* the step suspends a handler at a store call and sends nothing
SuspendsSilently ==
    /\ res' = res
    /\ \E h \in Handlers : inflight'[h] # inflight[h] /\ Pending(h)'

\* the step sends one response, and the handler it belongs to returns
AnswersOnce ==
    /\ res'.status \in ResponseStatuses
    /\ \A h \in Handlers :
          inflight'[h] # inflight[h] =>
             /\ inflight'[h].pc = "done"
             /\ res'.op = inflight'[h].op
             /\ res'.status = inflight'[h].status
    /\ (inflight' = inflight) =>
          \/ res'.op \in {"create", "get"}
          \/ \E h \in Handlers : /\ inflight[h].pc = "done"
                                 /\ res'.op = inflight[h].op
                                 /\ res'.status = inflight[h].status

\* C38: every create, join, leave, end and get request is answered with
\* exactly one response when every store call settles: each step of a handler
\* either suspends it at a store call without sending anything or sends one
\* response and returns, and a suspended handler is eventually answered
C38_EveryRequestAnswered ==
    /\ [][SuspendsSilently \/ AnswersOnce]_vars
    /\ \A h \in Handlers : Pending(h) ~> (inflight[h].pc = "done")

\* a leave that went through both of its updates and was answered while the
\* other handler's join was waiting for the store
C38_Witness ==
    \E h \in Handlers, g \in Handlers :
       /\ h # g
       /\ inflight[h].op = "leave" /\ inflight[h].pc = "done"
       /\ inflight[h].activeParticipants = 0 /\ inflight[h].status = 200
       /\ inflight[h].id \in DOMAIN meetings
       /\ ~meetings[inflight[h].id].isActive
       /\ inflight[g].op = "join" /\ inflight[g].pc = "update"

(***************************************************************************)
(* Rate limiting for AI APIs: queueRequest pushes a request and calls      *)
(* processQueue; processQueue starts the oldest request when               *)
(* MIN_REQUEST_INTERVAL has passed since the last start and otherwise sets *)
(* a timer for the remainder; after a started request has settled it sets  *)
(* a timer of MIN_REQUEST_INTERVAL.  JavaScript runs each of these to its  *)
(* first await in one piece.  Time passes in steps of TickMs, and a timer  *)
(* fires once its delay has run out, possibly later.                       *)
(***************************************************************************)
MaxRequests == 3

\* variant of IntervalElapsed: the interval is not looked at
IntervalElapsedAlways(t) == t >= 0

\* timeSinceLastRequest >= MIN_REQUEST_INTERVAL
IntervalElapsed(t) == t >= MIN_REQUEST_INTERVAL

\* setTimeout(processQueue, delay)
SetTimeout(ts, delay) == [ts EXCEPT ![delay] = @ + 1]

\* processQueue up to `await fn()` or to its setTimeout, on the queue q and
\* the timers ts its caller left
processQueue(q, ts) ==
    IF Len(q) = 0
    THEN /\ requestQueue' = q
         /\ timers' = ts
         /\ UNCHANGED <<timeSinceLastRequest, started>>
    ELSE IF IntervalElapsed(timeSinceLastRequest)
         THEN /\ requestQueue' = Tail(q)
              /\ timeSinceLastRequest' = 0
              /\ started' = Append(started, [id |-> Head(q),
                                             since |-> timeSinceLastRequest])
              /\ timers' = ts
         ELSE /\ requestQueue' = q
              /\ timers' = SetTimeout(ts, MIN_REQUEST_INTERVAL - timeSinceLastRequest)
              /\ UNCHANGED <<timeSinceLastRequest, started>>

\* queueRequest(fn): the request is named by its place in the order of calls
queueRequest ==
    /\ Len(promises) < MaxRequests
    /\ promises' = Append(promises, "pending")
    /\ processQueue(Append(requestQueue, Len(promises) + 1), timers)
    /\ UNCHANGED <<storeVars, connVars, generated, twin>>

\* a timer whose delay has run out calls processQueue
TimerFires ==
    /\ timers[0] > 0
    /\ processQueue(requestQueue, [timers EXCEPT ![0] = @ - 1])
    /\ UNCHANGED <<storeVars, connVars, generated, twin, promises>>

\* processQueue from the settling of `await fn()`: resolve(result) or
\* reject(error), then setTimeout(processQueue, MIN_REQUEST_INTERVAL)
FnSettles ==
    /\ \E i \in 1..Len(started), ok \in BOOLEAN :
          /\ promises[started[i].id] = "pending"
          /\ promises' = [promises EXCEPT ![started[i].id] =
                             IF ok THEN "resolved" ELSE "rejected"]
    /\ timers' = SetTimeout(timers, MIN_REQUEST_INTERVAL)
    /\ UNCHANGED <<storeVars, connVars, generated, twin, requestQueue,
                   timeSinceLastRequest, started>>

\* TickMs milliseconds pass
Tick ==
    /\ timeSinceLastRequest' =
          IF timeSinceLastRequest + TickMs >= MIN_REQUEST_INTERVAL
          THEN MIN_REQUEST_INTERVAL ELSE timeSinceLastRequest + TickMs
    /\ timers' = [d \in Delays |->
                    IF d = 0 THEN timers[0] + timers[TickMs]
                    ELSE IF d + TickMs \in Delays THEN timers[d + TickMs] ELSE 0]
    /\ UNCHANGED <<storeVars, connVars, generated, twin, requestQueue,
                   started, promises>>

NextQueue == queueRequest \/ TimerFires \/ FnSettles \/ Tick

\* time passes and due timers fire; nothing is assumed about fn settling
SpecQueue == Init /\ [][NextQueue]_vars /\ WF_vars(Tick) /\ WF_vars(TimerFires)

StartedIds == {started[i].id : i \in 1..Len(started)}

\* started in the order of the calls, each once, and the rest still queued
StartedInOrder ==
    /\ \A i \in 1..Len(started) : started[i].id = i
    /\ Len(requestQueue) = Len(promises) - Len(started)
    /\ \A i \in 1..Len(requestQueue) : requestQueue[i] = Len(started) + i

StartsSpacedOut ==
    \A i \in 1..Len(started) : started[i].since >= MIN_REQUEST_INTERVAL

\* C39: the requests passed to queueRequest are started in the order of the
\* calls, each exactly once, no start follows the one before it by less than
\* MIN_REQUEST_INTERVAL, and every request that waits in the queue is
\* eventually started
C39_QueueIsFifoAndSpaced ==
    /\ [](StartedInOrder /\ StartsSpacedOut)
    /\ \A id \in 1..MaxRequests :
          (id \in Range(requestQueue)) ~> (id \in StartedIds)

\* every request was started although the first one is still running: the
\* later calls of queueRequest arrived while it ran
C39_Witness ==
    /\ Len(promises) >= 3
    /\ Len(started) = Len(promises)
    /\ promises[1] = "pending"
====
